---- MODULE Spec2Model ----
(***************************************************************************)
(* Model of bevy-hex-sandbox: the tileset registry (src/tileset.rs), the   *)
(* tile picker's drag reorder (src/bin/editor_ui/panel.rs), the SaveId     *)
(* resolver and the map document codec (src/persistence.rs).               *)
(*                                                                         *)
(* The ECS world is one record: an entity is a natural number, a component *)
(* type is a function from the entities that carry it to its value.        *)
(* The specifications share the variables:                                 *)
(*   SpecTileset      one Tileset under add_tile, drag reorder and the     *)
(*                    import of tileset files written elsewhere            *)
(*   SpecTilesetFile  one Tileset under add_tile, drag reorder, export and *)
(*                    import of the exported file                          *)
(*   SpecIds          a world of bare entities under assign_save_ids       *)
(*   SpecMap          a world holding maps under the editor's edits, save  *)
(*                    (try_new) and load (try_spawn)                       *)
(*   SpecCodec        SaveMapCommand on small worlds built entity by entity *)
(*   SpecReject       loads and imports of files, good and bad              *)
(*   SpecTasks        the IoTaskPool tasks of load, save, import and export *)
(*                    with the systems that poll them                       *)
(*   SpecWrites       the editor's edits while writes are in flight         *)
(*   SpecEditor       the session with EditorState, menu, dialog and events *)
(*   SpecOpen         the session with loads in flight                      *)
(*   SpecCursor       the map cursor under rotation and pointer moves       *)
(*   SpecScene        the placed tiles under the systems of tileset::Plugin *)
(*   SpecImport       the session with tileset imports in flight            *)
(***************************************************************************)
EXTENDS Integers, Sequences, FiniteSets, TLC

VARIABLES
    world,        \* the ECS World
    mapFile,      \* the map file last written or read: Some(a serialized
                  \* MapFormat), or NoFile
    tileset,      \* SpecTileset: the Tileset component being edited
    tilesetFile,  \* the tileset file the editor exported, or NoFile
    exported,     \* history: Some(what the Tileset held when tilesetFile was
                  \* written: its name, tile_order and tiles less their
                  \* runtime handles)
    crashed,      \* TRUE once a system has panicked (the process is gone)
    last          \* history: the last operation and its outcome

vars == <<world, mapFile, tileset, tilesetFile, exported, crashed, last>>

----------------------------------------------------------------------------
(* Bounds *)

MaxTiles    == 3    \* tiles per tileset (SpecTileset)
MaxFileLen  == 2    \* tiles in a hand-written tileset file
MaxEntities == 3    \* entities of the world (SpecIds)
MaxBatch    == 2    \* length of an assign_save_ids batch
MaxEntityId == 7    \* last entity a session allocates (SpecMap)
MaxMapTiles == 1    \* tiles per tileset of a map (SpecMap)
MaxLayers   == 2    \* layers of a session (SpecMap)
MaxCodecId  == 6    \* last entity SpecCodec allocates
MaxTaskId   == 6    \* entity ids handed out in SpecTasks
MaxInFlight == 2    \* tasks in flight at a time in SpecTasks
MaxEditorId == 6    \* entity ids handed out in SpecEditor
MaxEvents   == 2    \* unread EditorUiEvents in SpecEditor
MaxPickers  == 2    \* file dialogs open at a time in SpecPicker
MaxPickerId == 5    \* last entity a file dialog gets in SpecPicker

(* Program constants *)

TILESET_VERSION    == 1
MAP_FORMAT_VERSION == 1

----------------------------------------------------------------------------
(* Generic helpers: HashMap / BTreeMap / Vec *)

\* Option<T>: None is the empty sequence, Some(x) the sequence holding x
None      == <<>>
Some(x)   == <<x>>
IsSome(o) == o # <<>>
Unwrap(o) == o[1]

NoFile == None
NoKey  == "None"

EmptyMap == [k \in {} |-> k]

\* HashMap::insert / BTreeMap::insert: the later value wins
Put(f, k, v) == [x \in (DOMAIN f) \cup {k} |-> IF x = k THEN v ELSE f[x]]

\* the map without key k
Without(f, k) == [x \in (DOMAIN f) \ {k} |-> f[x]]

\* Vec::remove(index), index 0-based (a sequence is 1-based)
VecRemove(v, index) ==
    [k \in 1..(Len(v) - 1) |-> IF k <= index THEN v[k] ELSE v[k + 1]]

\* Vec::insert(index, x), index 0-based, index <= len
VecInsert(v, index, x) ==
    [k \in 1..(Len(v) + 1) |->
        IF k <= index THEN v[k] ELSE IF k = index + 1 THEN x ELSE v[k - 1]]

Range(s) == {s[k] : k \in DOMAIN s}

Max(S) == CHOOSE m \in S : \A x \in S : x <= m

\* the members of S in ascending order: the order a BTreeMap iterates in
RECURSIVE Ascending(_)
Ascending(S) ==
    IF S = {} THEN <<>>
    ELSE LET m == CHOOSE x \in S : \A y \in S : x <= y
         IN  <<m>> \o Ascending(S \ {m})

\* all sequences over S of length at most n
SeqsUpTo(S, n) == UNION {[1..k -> S] : k \in 0..n}

----------------------------------------------------------------------------
(* Tileset: src/tileset.rs *)

\* Tile (tileset.rs:39-50); name is the path's file stem and transform is
\* IDENTITY at creation, neither is changed by the operations modelled here;
\* scene stands for both serde(skip) runtime handles
Tile(id, path) == [id |-> id, path |-> path, scene |-> FALSE]

\* Tileset::new
TilesetNew(name) ==
    [name |-> name, tiles |-> EmptyMap, tile_order |-> <<>>, tile_id_max |-> 0]

\* Tileset::default(), what visit_map starts from
TilesetDefault == TilesetNew("")

\* Tileset::add_tile
AddTile(ts, path) ==
    LET tile == Tile(ts.tile_id_max, path)
    IN  [ts EXCEPT !.tile_order  = Append(@, tile.id),
                   !.tiles       = Put(@, tile.id, tile),
                   !.tile_id_max = @ + 1]

\* load_tiles: every tile without a scene handle gets one
LoadTiles(ts) ==
    [ts EXCEPT !.tiles = [id \in DOMAIN @ |-> [@[id] EXCEPT !.scene = TRUE]]]

\* the serde form of a Tile: scene and egui_texture_id are skipped
SerTile(t) == [id |-> t.id, path |-> t.path]

\* a deserialized Tile: the skipped fields take their defaults
DeTile(st) == [id |-> st.id, path |-> st.path, scene |-> FALSE]

\* what a Tileset holds apart from runtime state: the name, the order and
\* each tile's persisted fields (not the handles, not tile_id_max)
Content(ts) ==
    [name       |-> ts.name,
     tile_order |-> ts.tile_order,
     tiles      |-> [id \in DOMAIN ts.tiles |-> SerTile(ts.tiles[id])]]

TilesetKeys == <<"version", "name", "tiles">>

\* impl Serialize for Tileset: mutant emitting the tiles in map-key order
SerializeTilesetMutKeyOrder(ts) ==
    LET order == Ascending(DOMAIN ts.tiles)
    IN  [keys    |-> TilesetKeys,
         version |-> TILESET_VERSION,
         name    |-> ts.name,
         tiles   |-> [k \in 1..Len(order) |-> SerTile(ts.tiles[order[k]])]]

\* impl Serialize for Tileset: version, name, then the tiles in tile_order
SerializeTileset(ts) ==
    [keys    |-> TilesetKeys,
     version |-> TILESET_VERSION,
     name    |-> ts.name,
     tiles   |-> [k \in 1..Len(ts.tile_order) |->
                    SerTile(ts.tiles[ts.tile_order[k]])]]

\* the loop at the end of visit_map: push the id, insert the tile
RECURSIVE InsertTiles(_, _, _)
InsertTiles(ts, tiles, k) ==
    IF k > Len(tiles) THEN ts
    ELSE InsertTiles(
            [ts EXCEPT !.tile_order = Append(@, tiles[k].id),
                       !.tiles      = Put(@, tiles[k].id, DeTile(tiles[k]))],
            tiles, k + 1)

\* the key read by the n-th next_key(), None past the end
KeyAt(f, n) == IF n <= Len(f.keys) THEN f.keys[n] ELSE NoKey

\* TilesetVisitor::visit_map: mutant that accepts any version value
VisitMapMutAnyVersion(f) ==
    IF KeyAt(f, 1) # "version" THEN [ok |-> FALSE, value |-> None]
    ELSE IF KeyAt(f, 2) # "name" THEN [ok |-> FALSE, value |-> None]
    ELSE IF KeyAt(f, 3) # "tiles" THEN [ok |-> FALSE, value |-> None]
    ELSE [ok    |-> TRUE,
          value |-> InsertTiles([TilesetDefault EXCEPT !.name = f.name],
                                f.tiles, 1)]

\* TilesetVisitor::visit_map: [ok, value]
VisitMap(f) ==
    IF KeyAt(f, 1) # "version" THEN [ok |-> FALSE, value |-> None]
    ELSE IF f.version # TILESET_VERSION THEN [ok |-> FALSE, value |-> None]
    ELSE IF KeyAt(f, 2) # "name" THEN [ok |-> FALSE, value |-> None]
    ELSE IF KeyAt(f, 3) # "tiles" THEN [ok |-> FALSE, value |-> None]
    ELSE [ok    |-> TRUE,
          value |-> InsertTiles([TilesetDefault EXCEPT !.name = f.name],
                                f.tiles, 1)]

----------------------------------------------------------------------------
(* TilePicker::draw, the drop of a drag: src/bin/editor_ui/panel.rs *)

\* the first loop: collect (tile_id, index) of every selected tile and step
\* insert_index down for each one found before it; index is 0-based
RECURSIVE ScanSelected(_, _, _, _, _)
ScanSelected(order, sel, index, moved, insert_index) ==
    IF index >= Len(order) THEN [moved |-> moved, insert_index |-> insert_index]
    ELSE IF order[index + 1] \in sel
         THEN ScanSelected(order, sel, index + 1,
                           Append(moved, <<order[index + 1], index>>),
                           IF index < insert_index THEN insert_index - 1
                                                   ELSE insert_index)
         ELSE ScanSelected(order, sel, index + 1, moved, insert_index)

\* moved.reverse()
Reverse(s) == [k \in 1..Len(s) |-> s[Len(s) + 1 - k]]

\* the second loop: tile_order.remove(index) for each moved entry
RECURSIVE RemoveMoved(_, _, _)
RemoveMoved(order, moved, k) ==
    IF k > Len(moved) THEN [panic |-> FALSE, order |-> order]
    ELSE IF moved[k][2] >= Len(order) THEN [panic |-> TRUE, order |-> order]
    ELSE RemoveMoved(VecRemove(order, moved[k][2]), moved, k + 1)

\* the third loop: tile_order.insert(insert_index, tile_id) for each moved
\* entry; Vec::insert panics when the index is past the length
RECURSIVE InsertMoved(_, _, _, _)
InsertMoved(order, moved, insert_index, k) ==
    IF k > Len(moved) THEN [panic |-> FALSE, order |-> order]
    ELSE IF insert_index > Len(order) THEN [panic |-> TRUE, order |-> order]
    ELSE InsertMoved(VecInsert(order, insert_index, moved[k][1]),
                     moved, insert_index, k + 1)

\* the whole drop handler on tile_order: [panic, order]
DropReorder(order, sel, drop_index) ==
    LET scan    == ScanSelected(order, sel, 0, <<>>, drop_index)
        moved   == Reverse(scan.moved)
        removed == RemoveMoved(order, moved, 1)
    IN  IF removed.panic THEN removed
        ELSE InsertMoved(removed.order, moved, scan.insert_index, 1)

----------------------------------------------------------------------------
(* The world *)

EmptyWorld ==
    [next     |-> 1,         \* the next entity to allocate
     alive    |-> {},        \* the entities that exist
     map      |-> {},        \* entities with a map::Map component
     parent   |-> EmptyMap,  \* Parent component
     children |-> EmptyMap,  \* Children component
     tileset  |-> EmptyMap,  \* tileset::Tileset component
     layer    |-> EmptyMap,  \* map::Layer component: its name
     tile     |-> EmptyMap,  \* Location + TileRef + TileTransform
     saveId   |-> EmptyMap,  \* SaveId component
     task     |-> EmptyMap,  \* the component that tracks an IoTaskPool task
     scene    |-> {},        \* entities with a Handle<Scene> component
     dialog   |-> EmptyMap,  \* ui::ConfirmationDialog<EditorUiEvent>
     picker   |-> EmptyMap,  \* file_picker::PickerDialog<PickerEvent>
     picker_events |-> <<>>, \* resource Events<PickerEvent>, unread
     thumbnail |-> EmptyMap, \* entities render_thumbnails has spawned
     render_queue |-> [queue |-> <<>>,    \* resource RenderQueue
                       scene |-> <<>>],
     camera   |-> [is_active |-> FALSE,   \* the ThumbnailCamera's Camera
                   target    |-> <<>>],
     added    |-> {},        \* Added<map::Map> as map_loaded will see it
     events   |-> <<>>,      \* resource Events<EditorUiEvent>, unread
     cursor   |-> [rotation |-> "None",   \* the MapCursor's TileTransform
                   location |-> <<>>],    \* the MapCursor's Location
     state    |-> [map_path        |-> <<>>,    \* resource EditorState
                   unsaved_changes |-> FALSE,
                   active_layer    |-> <<>>,
                   active_tileset  |-> <<>>]]

----------------------------------------------------------------------------
(* SaveId: src/persistence.rs, impl WorldSaveIdExt for &mut World *)

\* World::spawn: the new entity is w.next
SpawnEmpty(w) == [w EXCEPT !.next = @ + 1, !.alive = @ \cup {w.next}]

\* World::despawn of one entity: every component goes with it
Despawn(w, e) ==
    [w EXCEPT !.alive    = @ \ {e},
              !.map      = @ \ {e},
              !.parent   = Without(@, e),
              !.children = Without(@, e),
              !.tileset  = Without(@, e),
              !.layer    = Without(@, e),
              !.tile     = Without(@, e),
              !.saveId   = Without(@, e),
              !.task     = Without(@, e),
              !.scene    = @ \ {e},
              !.dialog   = Without(@, e),
              !.picker   = Without(@, e),
              !.thumbnail = Without(@, e),
              !.added    = @ \ {e}]

\* the SaveId components the query::<&SaveId>() iterates
SaveIds(w) == {w.saveId[e] : e \in DOMAIN w.saveId}

SaveIdNextMutCount(w) == Cardinality(DOMAIN w.saveId)

\* save_id_next: max + 1, or SaveId(0) when the query is empty
SaveIdNext(w) == IF SaveIds(w) = {} THEN 0 ELSE Max(SaveIds(w)) + 1

AssignOneMutOverwrite(w, entity, next_id) ==
    [world   |-> [w EXCEPT !.saveId = Put(@, entity, next_id)],
     id      |-> next_id,
     next_id |-> next_id + 1]

AssignOneMutNoIncrement(w, entity, next_id) ==
    IF entity \in DOMAIN w.saveId
    THEN [world |-> w, id |-> w.saveId[entity], next_id |-> next_id]
    ELSE [world   |-> [w EXCEPT !.saveId = Put(@, entity, next_id)],
          id      |-> next_id,
          next_id |-> next_id]

\* the match in assign_save_ids' loop body, for an entity that exists:
\* reuse the entity's SaveId, or insert next_id and step it
AssignOne(w, entity, next_id) ==
    IF entity \in DOMAIN w.saveId
    THEN [world |-> w, id |-> w.saveId[entity], next_id |-> next_id]
    ELSE [world   |-> [w EXCEPT !.saveId = Put(@, entity, next_id)],
          id      |-> next_id,
          next_id |-> next_id + 1]

\* assign_save_ids' loop, mutant that passes over an unknown entity
RECURSIVE AssignLoopMutSkipUnknown(_, _, _, _, _)
AssignLoopMutSkipUnknown(w, entities, k, next_id, entity_map) ==
    IF k > Len(entities)
    THEN [ok |-> TRUE, world |-> w, entity_map |-> entity_map]
    ELSE IF entities[k] \notin w.alive
    THEN AssignLoopMutSkipUnknown(w, entities, k + 1, next_id, entity_map)
    ELSE LET one == AssignOne(w, entities[k], next_id)
         IN  AssignLoopMutSkipUnknown(one.world, entities, k + 1,
                                      one.next_id,
                                      Put(entity_map, entities[k], one.id))

\* assign_save_ids' loop from the k-th entity on; an unknown entity returns
\* Err at once, leaving the SaveIds inserted so far
RECURSIVE AssignLoop(_, _, _, _, _)
AssignLoop(w, entities, k, next_id, entity_map) ==
    IF k > Len(entities)
    THEN [ok |-> TRUE, world |-> w, entity_map |-> entity_map]
    ELSE IF entities[k] \notin w.alive
    THEN [ok |-> FALSE, world |-> w, entity_map |-> EmptyMap]
    ELSE LET one == AssignOne(w, entities[k], next_id)
         IN  AssignLoop(one.world, entities, k + 1, one.next_id,
                        Put(entity_map, entities[k], one.id))

\* assign_save_ids: [ok, world, entity_map]
AssignSaveIds(w, entities) ==
    AssignLoop(w, entities, 1, SaveIdNext(w), EmptyMap)

----------------------------------------------------------------------------
(* The hierarchy (bevy_hierarchy 0.10, as the source uses it) *)

HasChildren(w, e) == e \in DOMAIN w.children

ChildrenOf(w, e) == IF HasChildren(w, e) THEN w.children[e] ELSE <<>>

\* add_child / set_parent / a spawn inside with_children: the child gets
\* Parent, the parent's Children gets the child (the component is created
\* when missing)
AddChild(w, parent, child) ==
    [w EXCEPT !.parent   = Put(@, child, parent),
              !.children = Put(@, parent, Append(ChildrenOf(w, parent), child))]

\* push_children(&children): as add_child for each; an empty slice still
\* leaves a Children component on the parent
RECURSIVE PushChildren(_, _, _, _)
PushChildren(w, parent, kids, k) ==
    IF k > Len(kids)
    THEN [w EXCEPT !.children = Put(@, parent, ChildrenOf(w, parent))]
    ELSE PushChildren(AddChild(w, parent, kids[k]), parent, kids, k + 1)

----------------------------------------------------------------------------
(* MapFormat: src/persistence.rs *)

Layout == "HexLayout::default"

\* the sequences that list each element of S once: the orders in which a
\* query may iterate the entities S
Perms(S) == {p \in [1..Cardinality(S) -> S] : Range(p) = S}

\* add_tilesets' filter: the entities with Tileset and Parent == root
TilesetChildren(w, root) ==
    {e \in DOMAIN w.tileset : e \in DOMAIN w.parent /\ w.parent[e] = root}

\* add_layers' query and filter: Layer, Parent == root and Children
LayersQueried(w, root) ==
    {e \in DOMAIN w.layer :
        /\ e \in DOMAIN w.parent
        /\ w.parent[e] = root
        /\ HasChildren(w, e)}

\* add_tilesets' second loop: tilesets.insert(id, tileset.clone())
RECURSIVE InsertTilesets(_, _, _, _, _)
InsertTilesets(w, tilesets, entity_map, k, acc) ==
    IF k > Len(tilesets) THEN acc
    ELSE InsertTilesets(w, tilesets, entity_map, k + 1,
                        Put(acc, entity_map[tilesets[k]],
                            w.tileset[tilesets[k]]))

\* add_tilesets, with the order the query yields the tilesets in:
\* [ok, world, entity_map, tilesets]
AddTilesets(w, root, tilesets) ==
    LET r == AssignSaveIds(w, tilesets)
    IN  [ok         |-> r.ok,
         world      |-> r.world,
         entity_map |-> r.entity_map,
         tilesets   |-> IF r.ok
                        THEN InsertTilesets(r.world, tilesets, r.entity_map,
                                            1, EmptyMap)
                        ELSE EmptyMap]

\* add_layers' inner loop: mutant that drops a tile whose tileset has no
\* SaveId in entity_map instead of failing
RECURSIVE LayerTilesMutSkipDangling(_, _, _, _, _)
LayerTilesMutSkipDangling(w, entity_map, kids, k, acc) ==
    IF k > Len(kids) THEN [ok |-> TRUE, tiles |-> acc]
    ELSE IF kids[k] \notin DOMAIN w.tile
    THEN LayerTilesMutSkipDangling(w, entity_map, kids, k + 1, acc)
    ELSE IF w.tile[kids[k]].tileset \notin DOMAIN entity_map
    THEN LayerTilesMutSkipDangling(w, entity_map, kids, k + 1, acc)
    ELSE LayerTilesMutSkipDangling(w, entity_map, kids, k + 1,
            Append(acc, [location |-> w.tile[kids[k]].location,
                         tileset  |-> entity_map[w.tile[kids[k]].tileset],
                         tile_id  |-> w.tile[kids[k]].tile,
                         rotation |-> w.tile[kids[k]].rotation]))

\* add_layers' inner loop over one layer's children: a child without the
\* tile components is skipped; a TileRef whose tileset has no SaveId in
\* entity_map fails the encoding
RECURSIVE LayerTiles(_, _, _, _, _)
LayerTiles(w, entity_map, kids, k, acc) ==
    IF k > Len(kids) THEN [ok |-> TRUE, tiles |-> acc]
    ELSE IF kids[k] \notin DOMAIN w.tile
    THEN LayerTiles(w, entity_map, kids, k + 1, acc)
    ELSE IF w.tile[kids[k]].tileset \notin DOMAIN entity_map
    THEN [ok |-> FALSE, tiles |-> acc]
    ELSE LayerTiles(w, entity_map, kids, k + 1,
            Append(acc, [location |-> w.tile[kids[k]].location,
                         tileset  |-> entity_map[w.tile[kids[k]].tileset],
                         tile_id  |-> w.tile[kids[k]].tile,
                         rotation |-> w.tile[kids[k]].rotation]))

\* add_layers' outer loop, with the order the query yields the layers in
RECURSIVE AddLayers(_, _, _, _, _)
AddLayers(w, entity_map, layers, k, acc) ==
    IF k > Len(layers) THEN [ok |-> TRUE, layers |-> acc]
    ELSE LET t == LayerTiles(w, entity_map, w.children[layers[k]], 1, <<>>)
         IN  IF ~t.ok THEN [ok |-> FALSE, layers |-> acc]
             ELSE AddLayers(w, entity_map, layers, k + 1,
                            Append(acc, [name  |-> w.layer[layers[k]],
                                         tiles |-> t.tiles]))

NoDoc == [version |-> 0, layout |-> Layout, tilesets |-> EmptyMap,
          layers |-> <<>>]

\* MapFormat::try_new: mutant that looks for the Map component only after
\* add_tilesets
TryNewMutMapCheckLast(w, root, tilesets, layers) ==
    IF root \notin w.alive
    THEN [ok |-> FALSE, panic |-> TRUE, world |-> w, doc |-> NoDoc]
    ELSE LET ts == AddTilesets(w, root, tilesets)
             ls == AddLayers(ts.world, ts.entity_map, layers, 1, <<>>)
         IN  IF root \notin w.map \/ ~ts.ok \/ ~ls.ok
             THEN [ok |-> FALSE, panic |-> FALSE, world |-> ts.world,
                   doc |-> NoDoc]
             ELSE [ok    |-> TRUE,
                   panic |-> FALSE,
                   world |-> ts.world,
                   doc   |-> [version  |-> MAP_FORMAT_VERSION,
                              layout   |-> Layout,
                              tilesets |-> ts.tilesets,
                              layers   |-> ls.layers]]

\* MapFormat::try_new, with the orders the two queries iterate in:
\* [ok, panic, world, doc]; world.entity(root) panics on an entity that does
\* not exist, a root without Map is an Err before anything is touched, and
\* the SaveIds add_tilesets attached stay on a later Err
TryNew(w, root, tilesets, layers) ==
    IF root \notin w.alive
    THEN [ok |-> FALSE, panic |-> TRUE, world |-> w, doc |-> NoDoc]
    ELSE IF root \notin w.map
    THEN [ok |-> FALSE, panic |-> FALSE, world |-> w, doc |-> NoDoc]
    ELSE LET ts == AddTilesets(w, root, tilesets)
             ls == AddLayers(ts.world, ts.entity_map, layers, 1, <<>>)
         IN  IF ~ts.ok \/ ~ls.ok
             THEN [ok |-> FALSE, panic |-> FALSE, world |-> ts.world,
                   doc |-> NoDoc]
             ELSE [ok    |-> TRUE,
                   panic |-> FALSE,
                   world |-> ts.world,
                   doc   |-> [version  |-> MAP_FORMAT_VERSION,
                              layout   |-> Layout,
                              tilesets |-> ts.tilesets,
                              layers   |-> ls.layers]]

\* the derived Serialize of MapFormat (entity_map is skipped): each Tileset
\* goes through its own Serialize
SerializeMap(doc) ==
    [version  |-> doc.version,
     layout   |-> doc.layout,
     tilesets |-> [id \in DOMAIN doc.tilesets |->
                    SerializeTileset(doc.tilesets[id])],
     layers   |-> doc.layers]

\* the derived Deserialize of MapFormat (MapImporter's task): an Err from
\* any Tileset fails the whole parse; [ok, doc]
DeserializeMap(f) ==
    IF \E id \in DOMAIN f.tilesets : ~VisitMap(f.tilesets[id]).ok
    THEN [ok |-> FALSE, doc |-> NoDoc]
    ELSE [ok  |-> TRUE,
          doc |-> [version  |-> f.version,
                   layout   |-> f.layout,
                   tilesets |-> [id \in DOMAIN f.tilesets |->
                                    VisitMap(f.tilesets[id]).value],
                   layers   |-> f.layers]]

\* try_spawn's first loop: one child of root per tileset, in key order;
\* no SaveId is inserted: [world, entity_map]
RECURSIVE SpawnTilesets(_, _, _, _, _, _)
SpawnTilesets(doc, w, root, keys, k, entity_map) ==
    IF k > Len(keys) THEN [world |-> w, entity_map |-> entity_map]
    ELSE LET entity == w.next
             spawned == [SpawnEmpty(w) EXCEPT
                            !.tileset = Put(@, entity, doc.tilesets[keys[k]])]
         IN  SpawnTilesets(doc, AddChild(spawned, root, entity), root, keys,
                           k + 1, Put(entity_map, keys[k], entity))

\* try_spawn's loop over one layer's tiles: entity_map.get(..).unwrap()
\* panics on a tileset id that is no key of the document:
\* [panic, world, tiles]
RECURSIVE SpawnTiles(_, _, _, _, _)
SpawnTiles(w, entity_map, tiles, k, spawned) ==
    IF k > Len(tiles) THEN [panic |-> FALSE, world |-> w, tiles |-> spawned]
    ELSE IF tiles[k].tileset \notin DOMAIN entity_map
    THEN [panic |-> TRUE, world |-> w, tiles |-> spawned]
    ELSE LET tile_entity == w.next
             tile_ref == [location |-> tiles[k].location,
                          tileset  |-> entity_map[tiles[k].tileset],
                          tile     |-> tiles[k].tile_id,
                          rotation |-> tiles[k].rotation]
         IN  SpawnTiles([SpawnEmpty(w) EXCEPT
                            !.tile = Put(@, tile_entity, tile_ref)],
                        entity_map, tiles, k + 1,
                        Append(spawned, tile_entity))

\* try_spawn's loop over the layers: [panic, world]
RECURSIVE SpawnLayers(_, _, _, _, _)
SpawnLayers(w, root, entity_map, layers, k) ==
    IF k > Len(layers) THEN [panic |-> FALSE, world |-> w]
    ELSE LET layer_entity == w.next
             withLayer == AddChild([SpawnEmpty(w) EXCEPT
                                      !.layer = Put(@, layer_entity,
                                                    layers[k].name)],
                                   root, layer_entity)
             t == SpawnTiles(withLayer, entity_map, layers[k].tiles, 1, <<>>)
         IN  IF t.panic THEN [panic |-> TRUE, world |-> w]
             ELSE SpawnLayers(PushChildren(t.world, layer_entity, t.tiles, 1),
                              root, entity_map, layers, k + 1)

\* MapFormat::try_spawn: mutant that spawns whatever the version is
TrySpawnMutVersionUnchecked(doc, w, root) ==
    LET ts == SpawnTilesets(doc, w, root, Ascending(DOMAIN doc.tilesets),
                            1, EmptyMap)
        ls == SpawnLayers(ts.world, root, ts.entity_map, doc.layers, 1)
    IN  IF ls.panic
        THEN [ok |-> FALSE, panic |-> TRUE, world |-> w]
        ELSE [ok    |-> TRUE,
              panic |-> FALSE,
              world |-> [ls.world EXCEPT !.map = @ \cup {root}]]

\* MapFormat::try_spawn into the entity root: [ok, panic, world]; a panic
\* leaves the commands unapplied
TrySpawn(doc, w, root) ==
    IF doc.version # MAP_FORMAT_VERSION
    THEN [ok |-> FALSE, panic |-> FALSE, world |-> w]
    ELSE LET ts == SpawnTilesets(doc, w, root, Ascending(DOMAIN doc.tilesets),
                                 1, EmptyMap)
             ls == SpawnLayers(ts.world, root, ts.entity_map, doc.layers, 1)
         IN  IF ls.panic
             THEN [ok |-> FALSE, panic |-> TRUE, world |-> w]
             ELSE [ok    |-> TRUE,
                   panic |-> FALSE,
                   world |-> [ls.world EXCEPT !.map = @ \cup {root}]]

\* despawn_recursive: the parent forgets the entity, then the entity and
\* everything below it is despawned
RECURSIVE DespawnAll(_, _, _)
DespawnAll(w, entities, k) ==
    IF k > Len(entities) THEN w
    ELSE DespawnAll(Despawn(DespawnAll(w, ChildrenOf(w, entities[k]), 1),
                            entities[k]),
                    entities, k + 1)

DespawnRecursive(w, e) ==
    LET forgotten ==
            IF e \in DOMAIN w.parent /\ HasChildren(w, w.parent[e])
            THEN [w EXCEPT !.children[w.parent[e]] =
                              SelectSeq(@, LAMBDA c : c # e)]
            ELSE w
    IN  DespawnAll(forgotten, <<e>>, 1)

----------------------------------------------------------------------------
(* SpecIds: a world of bare entities under assign_save_ids *)

\* history of a call: its name, whether it returned Ok, and what it
\* returned: a SaveId (save_id_next) or an entity map (assign_save_ids)
Called(op, ok, id, entity_map) ==
    [op |-> op, ok |-> ok, id |-> id, entity_map |-> entity_map]

\* SaveIds attached outside assign_save_ids
OutsideIds == {3, 7}

InitIds ==
    /\ world = EmptyWorld
    /\ mapFile = NoFile
    /\ tileset = TilesetNew("ts a")
    /\ tilesetFile = NoFile
    /\ exported = None
    /\ crashed = FALSE
    /\ last = Called("none", TRUE, 0, EmptyMap)

\* world.spawn(Name), as in tests::world_assign_save_ids
IdSpawn ==
    /\ world.next <= MaxEntities
    /\ world' = SpawnEmpty(world)
    /\ last' = Called("spawn", TRUE, 0, EmptyMap)
    /\ UNCHANGED <<mapFile, tileset, tilesetFile, exported, crashed>>

\* world.spawn((Name, SaveId(id))), as in
\* tests::world_assign_save_ids_already_assigned: an id attached outside
\* assign_save_ids, distinct from the ids in use
IdSpawnWithId(id) ==
    /\ world.next <= MaxEntities
    /\ id \notin SaveIds(world)
    /\ world' = [SpawnEmpty(world) EXCEPT !.saveId = Put(@, world.next, id)]
    /\ last' = Called("spawn_with_id", TRUE, 0, EmptyMap)
    /\ UNCHANGED <<mapFile, tileset, tilesetFile, exported, crashed>>

IdDespawn(e) ==
    /\ e \in world.alive
    /\ world' = Despawn(world, e)
    /\ last' = Called("despawn", TRUE, 0, EmptyMap)
    /\ UNCHANGED <<mapFile, tileset, tilesetFile, exported, crashed>>

IdNext ==
    /\ last' = Called("save_id_next", TRUE, SaveIdNext(world), EmptyMap)
    /\ UNCHANGED <<world, mapFile, tileset, tilesetFile, exported, crashed>>

IdAssign(entities) ==
    /\ LET r == AssignSaveIds(world, entities)
       IN  /\ world' = r.world
           /\ last' = Called("assign_save_ids", r.ok, 0, r.entity_map)
    /\ UNCHANGED <<mapFile, tileset, tilesetFile, exported, crashed>>

\* the batches handed to assign_save_ids: entities may repeat, be
\* despawned, or never have existed
Batches == SeqsUpTo(1..MaxEntities, MaxBatch)

NextIds ==
    \/ IdSpawn
    \/ \E id \in OutsideIds : IdSpawnWithId(id)
    \/ \E e \in world.alive : IdDespawn(e)
    \/ IdNext
    \/ \E entities \in Batches : IdAssign(entities)

SpecIds == InitIds /\ [][NextIds]_vars

----------------------------------------------------------------------------
(* Claims about SaveIds *)

\* C4: assign_save_ids never overwrites an id: an entity of the batch that
\* already carries a SaveId keeps it and the returned map holds exactly
\* that id; an entity without one receives an id that is stored on the
\* entity and returned.
C4_AssignNeverOverwrites ==
    [][\A entities \in Batches :
        (IdAssign(entities) /\ last'.ok) =>
            \A e \in Range(entities) :
                /\ e \in DOMAIN last'.entity_map
                /\ e \in DOMAIN world'.saveId
                /\ last'.entity_map[e] = world'.saveId[e]
                /\ e \in DOMAIN world.saveId =>
                        world'.saveId[e] = world.saveId[e]]_vars

\* a call returned an id attached outside (7) next to a fresh one (8)
C4_Witness ==
    /\ last.op = "assign_save_ids"
    /\ last.ok
    /\ \E e, f \in DOMAIN last.entity_map :
            last.entity_map[e] = 7 /\ last.entity_map[f] = 8

\* C5: after any sequence of assign_save_ids calls over arbitrary batches,
\* from a world whose SaveIds are pairwise distinct, no two distinct
\* entities carry the same SaveId and an entity's SaveId never changes
\* once set.
C5_SaveIdsUniqueAndStable ==
    /\ [](\A e, f \in DOMAIN world.saveId :
            world.saveId[e] = world.saveId[f] => e = f)
    /\ [][\A e \in DOMAIN world.saveId :
            e \in world'.alive =>
                /\ e \in DOMAIN world'.saveId
                /\ world'.saveId[e] = world.saveId[e]]_vars

\* three entities carry SaveIds after a call
C5_Witness ==
    /\ last.op = "assign_save_ids"
    /\ last.ok
    /\ Cardinality(DOMAIN world.saveId) = 3

\* C6: save_id_next returns the largest attached SaveId plus one, or 0 when
\* no entity carries one, whoever attached the ids, and changes no state.
C6_SaveIdNextIsMaxPlusOne ==
    /\ [](last.op = "save_id_next" =>
            /\ \A id \in SaveIds(world) : last.id > id
            /\ last.id = 0 \/ (last.id - 1) \in SaveIds(world)
            /\ SaveIds(world) = {} => last.id = 0)
    /\ [][last'.op = "save_id_next" => world' = world]_vars

\* the spec's example: existing ids {3, 7} give 8
C6_Witness ==
    /\ last.op = "save_id_next"
    /\ SaveIds(world) = {3, 7}
    /\ last.id = 8

\* C25: assign_save_ids returns an error and no mapping when an entity of
\* the batch does not exist in the world (it was despawned before the call,
\* or never spawned)
C25_UnknownEntityFails ==
    [][\A entities \in Batches :
          (/\ IdAssign(entities)
           /\ \E k \in 1..Len(entities) : entities[k] \notin world.alive)
          => /\ ~last'.ok
             /\ last'.entity_map = EmptyMap
      ]_vars

\* assign_save_ids has failed in a world where an entity was despawned and
\* another holds a SaveId
C25_Witness ==
    /\ last.op = "assign_save_ids"
    /\ ~last.ok
    /\ last.entity_map = EmptyMap
    /\ \E e \in 1..(world.next - 1) : e \notin world.alive
    /\ DOMAIN world.saveId # {}

----------------------------------------------------------------------------
(* SpecTileset: one Tileset under the editor's tileset operations *)

Did(op, ok) == [op |-> op, ok |-> ok]

\* tileset files written by hand or by another program
ForeignTilesetFiles ==
    [keys    : {TilesetKeys},
     version : {TILESET_VERSION},
     name    : {"ts a"},
     tiles   : SeqsUpTo([id : 0..1, path : {"b.glb"}], MaxFileLen)]
    \cup
    [keys    : {TilesetKeys, <<"name", "version", "tiles">>},
     version : {TILESET_VERSION, TILESET_VERSION + 1},
     name    : {"ts a"},
     tiles   : {<<>>}]

InitTileset ==
    /\ world = EmptyWorld
    /\ mapFile = NoFile
    /\ tileset = TilesetNew("ts a")
    /\ tilesetFile = NoFile
    /\ exported = None
    /\ crashed = FALSE
    /\ last = Did("new", TRUE)

\* handle_picker_events, AddTiles: one picked file
TsAddTile(path) ==
    /\ ~crashed
    /\ Len(tileset.tile_order) < MaxTiles
    /\ tileset' = AddTile(tileset, path)
    /\ last' = Did("add_tile", TRUE)
    /\ UNCHANGED <<world, mapFile, tilesetFile, exported, crashed>>

\* load_tiles system
TsLoadTiles ==
    /\ ~crashed
    /\ tileset' = LoadTiles(tileset)
    /\ last' = Did("load_tiles", TRUE)
    /\ UNCHANGED <<world, mapFile, tilesetFile, exported, crashed>>

\* TilePicker::draw: the selected tiles sel are dropped on the tile drawn at
\* drop_index; a panic ends the process with nothing written back
TsDrop(sel, drop_index) ==
    /\ ~crashed
    /\ sel # {}
    /\ sel \subseteq Range(tileset.tile_order)
    /\ drop_index \in 0..(Len(tileset.tile_order) - 1)
    /\ LET r == DropReorder(tileset.tile_order, sel, drop_index)
       IN  /\ crashed' = r.panic
           /\ tileset' = IF r.panic THEN tileset
                         ELSE [tileset EXCEPT !.tile_order = r.order]
           /\ last' = Did("drop", ~r.panic)
    /\ UNCHANGED <<world, mapFile, tilesetFile, exported>>

\* TilesetExporter::new and its task: the clone is serialized to the file
TsExport ==
    /\ ~crashed
    /\ tilesetFile' = Some(SerializeTileset(tileset))
    /\ exported' = Some(Content(tileset))
    /\ last' = Did("export", TRUE)
    /\ UNCHANGED <<world, mapFile, tileset, crashed>>

\* TilesetImporter::new, its task and tileset_importer on the file the
\* editor exported: Ok inserts the Tileset, Err despawns the placeholder
TsImport ==
    /\ ~crashed
    /\ IsSome(tilesetFile)
    /\ LET r == VisitMap(Unwrap(tilesetFile))
       IN  /\ tileset' = IF r.ok THEN r.value ELSE tileset
           /\ last' = Did("import", r.ok)
    /\ UNCHANGED <<world, mapFile, tilesetFile, exported, crashed>>

\* the same on a tileset file f that was written elsewhere
TsImportForeign(f) ==
    /\ ~crashed
    /\ LET r == VisitMap(f)
       IN  /\ tileset' = IF r.ok THEN r.value ELSE tileset
           /\ last' = Did("import_foreign", r.ok)
    /\ UNCHANGED <<world, mapFile, tilesetFile, exported, crashed>>

NextTileset ==
    \/ TsAddTile("a.glb")
    \/ TsLoadTiles
    \/ \E sel \in SUBSET Range(tileset.tile_order) :
         \E i \in 0..(Len(tileset.tile_order) - 1) : TsDrop(sel, i)
    \/ \E f \in ForeignTilesetFiles : TsImportForeign(f)

SpecTileset == InitTileset /\ [][NextTileset]_vars

(* SpecTilesetFile: the same Tileset with export to a file and import of it *)

NextTilesetFile ==
    \/ TsAddTile("a.glb")
    \/ TsLoadTiles
    \/ \E sel \in SUBSET Range(tileset.tile_order) :
         \E i \in 0..(Len(tileset.tile_order) - 1) : TsDrop(sel, i)
    \/ TsExport
    \/ TsImport

SpecTilesetFile == InitTileset /\ [][NextTilesetFile]_vars

----------------------------------------------------------------------------
(* Claims about the Tileset *)

NoDuplicates(s) == \A j, k \in DOMAIN s : s[j] = s[k] => j = k

\* C7: in every reachable Tileset state (after new, add_tile, a drag
\* reorder, or deserialization of any tile sequence) tile_order has no
\* duplicates and its elements are exactly the keys of tiles.
C7_TileOrderIsPermutation ==
    /\ NoDuplicates(tileset.tile_order)
    /\ Range(tileset.tile_order) = DOMAIN tileset.tiles

\* C8: add_tile assigns a TileId that is not a key of tiles at the time of
\* the call, so it overwrites nothing and grows tiles and tile_order by
\* exactly one, also on a tileset that came from deserialization.
C8_AddTileUsesFreshId ==
    [][last'.op = "add_tile" =>
        /\ tileset'.tile_order[Len(tileset'.tile_order)]
                \notin DOMAIN tileset.tiles
        /\ Cardinality(DOMAIN tileset'.tiles)
                = Cardinality(DOMAIN tileset.tiles) + 1
        /\ Len(tileset'.tile_order) = Len(tileset.tile_order) + 1
        /\ \A id \in DOMAIN tileset.tiles :
                tileset'.tiles[id] = tileset.tiles[id]]_vars

\* the elements of order at 0-based indexes lo..hi-1 that satisfy keep
RECURSIVE Pick(_, _, _, _, _)
Pick(order, sel, lo, hi, selected) ==
    IF lo >= hi THEN <<>>
    ELSE (IF (order[lo + 1] \in sel) = selected THEN <<order[lo + 1]>>
          ELSE <<>>)
         \o Pick(order, sel, lo + 1, hi, selected)

\* what C9 says a drop yields: the unselected ids before index i, the
\* selected ids as one block in their original order, the other unselected
BlockMove(order, sel, i) ==
    Pick(order, sel, 0, i, FALSE)
    \o Pick(order, sel, 0, Len(order), TRUE)
    \o Pick(order, sel, i, Len(order), FALSE)

\* C9: a drop of the selected subset sel at insertion index i turns a
\* duplicate-free tile_order into BlockMove(tile_order, sel, i), changes no
\* tile, and no remove or insert index is out of bounds.
C9_DropMovesBlock ==
    [][\A sel \in SUBSET Range(tileset.tile_order) :
        \A i \in 0..(Len(tileset.tile_order) - 1) :
            (NoDuplicates(tileset.tile_order) /\ TsDrop(sel, i)) =>
                /\ ~crashed'
                /\ tileset'.tile_order = BlockMove(tileset.tile_order, sel, i)
                /\ tileset'.tiles = tileset.tiles]_vars

\* C10: a serialized Tileset lists its tiles in tile_order, and
\* deserializing that output gives a Tileset with the same name, the same
\* tiles (their persisted fields) and the same tile_order sequence.
C10_TilesetRoundTrip ==
    /\ IsSome(tilesetFile) =>
            [k \in DOMAIN Unwrap(tilesetFile).tiles |->
                Unwrap(tilesetFile).tiles[k].id]
            = Unwrap(exported).tile_order
    /\ last.op = "import" =>
            /\ last.ok
            /\ Content(tileset) = Unwrap(exported)

\* an import has rebuilt a three-tile tileset whose order is not key order
C10_Witness ==
    /\ last.op = "import"
    /\ last.ok
    /\ Len(tileset.tile_order) = 3
    /\ NoDuplicates(tileset.tile_order)
    /\ tileset.tile_order # Ascending(DOMAIN tileset.tiles)

----------------------------------------------------------------------------
(* SpecMap: the maps of one editor session and the map file.  The editor
   builds a map (close_map and create_map, tileset import, add tiles, new layer, paint,
   erase, delete tileset), SaveMapCommand encodes a root into the file and
   MapImporter and map_importer load a file under a fresh root *)

Locations == {[x |-> 0, y |-> 0], [x |-> 1, y |-> 0]}

Rotations == {"None", "Clockwise60"}

MapDid(op, ok, root) == [op |-> op, ok |-> ok, root |-> root]

\* the tileset file the session imports: one tile, written by the exporter
ImportedTilesetFile ==
    SerializeTileset(AddTile(TilesetNew("ts b"), "b.glb"))

\* a map file written by hand or by an older session: two tilesets keyed 3
\* and 7 and one layer whose tile instances name the tileset ids refs
ForeignMapFile(version, refs) ==
    [version  |-> version,
     layout   |-> Layout,
     tilesets |-> [id \in {3, 7} |->
                    SerializeTileset(AddTile(
                        TilesetNew(IF id = 3 THEN "ts a" ELSE "ts b"),
                        "a.glb"))],
     layers   |-> <<[name  |-> "layer 0",
                     tiles |-> [k \in 1..Len(refs) |->
                                 [location |-> [x |-> k - 1, y |-> 0],
                                  tileset  |-> refs[k],
                                  tile_id  |-> 0,
                                  rotation |-> "None"]]]>>]

ForeignMapFiles ==
    {ForeignMapFile(MAP_FORMAT_VERSION, refs) :
        refs \in {<<>>, <<3, 7>>, <<3, 5, 3>>}}
    \cup {ForeignMapFile(MAP_FORMAT_VERSION + 1, <<>>),
          [ForeignMapFile(MAP_FORMAT_VERSION, <<>>) EXCEPT
              !.tilesets[3].version = TILESET_VERSION + 1]}

\* the entities try_spawn allocates for a document, and the importer's own
RECURSIVE CountTiles(_, _)
CountTiles(layers, k) ==
    IF k > Len(layers) THEN 0
    ELSE Len(layers[k].tiles) + CountTiles(layers, k + 1)

DocSize(f) ==
    1 + Cardinality(DOMAIN f.tilesets) + Len(f.layers)
      + CountTiles(f.layers, 1)

\* the entities a load of the file f allocates: the importer's alone when
\* the file is rejected before try_spawn issues a spawn
LoadSize(f) ==
    IF DeserializeMap(f).ok /\ f.version = MAP_FORMAT_VERSION
    THEN DocSize(f) ELSE 1

InitMap ==
    /\ world = EmptyWorld
    /\ mapFile = NoFile
    /\ tileset = TilesetNew("ts a")
    /\ tilesetFile = NoFile
    /\ exported = None
    /\ crashed = FALSE
    /\ last = MapDid("none", TRUE, 0)

\* close_map: the map is despawned with everything below it when the world
\* holds exactly one (Query::get_single)
CloseMap(w) ==
    IF Cardinality(w.map) = 1
    THEN DespawnRecursive(w, CHOOSE root \in w.map : TRUE)
    ELSE w

\* create_map: the root, the layer "Background" and "Default Tileset"
CreateMap(w) ==
    LET root == w.next
        layer == root + 1
        ts == root + 2
        w1 == [SpawnEmpty(w) EXCEPT !.map = @ \cup {root}]
        w2 == [SpawnEmpty(w1) EXCEPT !.layer = Put(@, layer, "Background")]
        w3 == [SpawnEmpty(w2) EXCEPT
                  !.tileset = Put(@, ts, TilesetNew("Default Tileset"))]
    IN  PushChildren(w3, root, <<layer, ts>>, 1)

\* handle_ui_events, MapNew: close_map, then create_map
MapNew ==
    /\ ~crashed
    /\ world.next + 2 <= MaxEntityId
    /\ world' = CreateMap(CloseMap(world))
    /\ last' = MapDid("new", TRUE, world.next)
    /\ UNCHANGED <<mapFile, tileset, tilesetFile, exported, crashed>>

\* handle_picker_events, TilesetImport, and tileset_importer for the file
\* f: a placeholder child of the root that receives the parsed Tileset, or
\* is despawned (not recursively: the root's Children keeps the entity)
\* when the file does not parse
MapImportTileset(root, f) ==
    /\ ~crashed
    /\ root \in world.map
    /\ world.next <= MaxEntityId
    /\ LET id == world.next
           parsed == VisitMap(f)
           w1 == PushChildren(SpawnEmpty(world), root, <<id>>, 1)
       IN  /\ world' = IF parsed.ok
                       THEN [w1 EXCEPT !.tileset = Put(@, id, parsed.value)]
                       ELSE Despawn(w1, id)
           /\ last' = MapDid("import_tileset", parsed.ok, id)
    /\ UNCHANGED <<mapFile, tileset, tilesetFile, exported, crashed>>

\* handle_picker_events, AddTiles: one picked file
MapAddTile(tileset_id, path) ==
    /\ ~crashed
    /\ tileset_id \in DOMAIN world.tileset
    /\ Len(world.tileset[tileset_id].tile_order) < MaxMapTiles
    /\ world' = [world EXCEPT
                    !.tileset[tileset_id] = AddTile(@, path)]
    /\ last' = MapDid("add_tile", TRUE, tileset_id)
    /\ UNCHANGED <<mapFile, tileset, tilesetFile, exported, crashed>>

\* CreateLayerPopup, "Create": a Layer with set_parent(map)
MapCreateLayer(root, name) ==
    /\ ~crashed
    /\ root \in world.map
    /\ world.next <= MaxEntityId
    /\ Cardinality(DOMAIN world.layer) < MaxLayers
    /\ LET layer == world.next
       IN  world' = AddChild([SpawnEmpty(world) EXCEPT
                                !.layer = Put(@, layer, name)],
                            root, layer)
    /\ last' = MapDid("create_layer", TRUE, root)
    /\ UNCHANGED <<mapFile, tileset, tilesetFile, exported, crashed>>

\* handle_map_cursor_events' loop, mutant that leaves the tile it replaces
RECURSIVE PaintScanMutKeep(_, _, _, _, _)
PaintScanMutKeep(w, tiles, k, tile_ref, left) ==
    IF k > Len(tiles) THEN [matched |-> FALSE, world |-> w]
    ELSE IF w.tile[tiles[k]] = tile_ref /\ left
    THEN [matched |-> TRUE, world |-> w]
    ELSE PaintScanMutKeep(IF left THEN w ELSE DespawnRecursive(w, tiles[k]),
                          tiles, k + 1, tile_ref, left)

\* handle_map_cursor_events' loop over the layer's tiles at the cursor's
\* location, in the order the query yields them: [matched, world]
RECURSIVE PaintScan(_, _, _, _, _)
PaintScan(w, tiles, k, tile_ref, left) ==
    IF k > Len(tiles) THEN [matched |-> FALSE, world |-> w]
    ELSE IF w.tile[tiles[k]] = tile_ref /\ left
    THEN [matched |-> TRUE, world |-> w]
    ELSE PaintScan(DespawnRecursive(w, tiles[k]), tiles, k + 1, tile_ref,
                   left)

\* handle_map_cursor_events with a button held: left paints the cursor's
\* tile on the layer, any other button erases
MapPaint(layer, tile_ref, left) ==
    /\ ~crashed
    /\ layer \in DOMAIN world.layer
    /\ tile_ref.tileset \in DOMAIN world.tileset
    /\ tile_ref.tile \in DOMAIN world.tileset[tile_ref.tileset].tiles
    /\ left => world.next <= MaxEntityId
    /\ \E tiles \in Perms({e \in DOMAIN world.tile :
                              /\ e \in DOMAIN world.parent
                              /\ world.parent[e] = layer
                              /\ world.tile[e].location = tile_ref.location}) :
          LET scan == PaintScan(world, tiles, 1, tile_ref, left)
              tile_entity == scan.world.next
          IN  world' = IF left /\ ~scan.matched
                       THEN AddChild([SpawnEmpty(scan.world) EXCEPT
                                        !.tile = Put(@, tile_entity, tile_ref)],
                                     layer, tile_entity)
                       ELSE scan.world
    /\ last' = MapDid(IF left THEN "paint" ELSE "erase", TRUE, layer)
    /\ UNCHANGED <<mapFile, tileset, tilesetFile, exported, crashed>>

\* remove_tileset: despawn_recursive of the tileset
MapDeleteTileset(tileset_id) ==
    /\ ~crashed
    /\ tileset_id \in DOMAIN world.tileset
    /\ world' = DespawnRecursive(world, tileset_id)
    /\ last' = MapDid("delete_tileset", TRUE, tileset_id)
    /\ UNCHANGED <<mapFile, tileset, tilesetFile, exported, crashed>>

\* SaveMapCommand::write and map_writers for the entity handle root:
\* try_new, then the writer task's entity lives until the file is written
SaveMapCommandWrite(root) ==
    /\ ~crashed
    /\ world.next <= MaxEntityId
    /\ \E tilesets \in Perms(TilesetChildren(world, root)),
          layers \in Perms(LayersQueried(world, root)) :
          LET r == TryNew(world, root, tilesets, layers)
          IN  /\ world' = IF r.ok
                          THEN Despawn(SpawnEmpty(r.world), r.world.next)
                          ELSE r.world
              /\ mapFile' = IF r.ok THEN Some(SerializeMap(r.doc))
                            ELSE mapFile
              /\ crashed' = r.panic
              /\ last' = MapDid("save", r.ok, root)
    /\ UNCHANGED <<tileset, tilesetFile, exported>>

\* save_map: the command is built for the entity the Map query yields and
\* applied at once
MapSave(root) ==
    /\ root \in world.map
    /\ SaveMapCommandWrite(root)

\* load_map, MapImporter's task and map_importer for the file f
MapLoadFile(f) ==
    /\ ~crashed
    /\ world.next + LoadSize(f) - 1 <= MaxEntityId
    /\ LET root == world.next
           w1 == SpawnEmpty(world)
           parsed == DeserializeMap(f)
           r == TrySpawn(parsed.doc, w1, root)
       IN  /\ world' = IF ~parsed.ok THEN Despawn(w1, root)
                       ELSE IF r.panic THEN w1
                       ELSE IF ~r.ok THEN DespawnRecursive(w1, root)
                       ELSE r.world
           /\ crashed' = (parsed.ok /\ r.panic)
           /\ last' = MapDid("load", parsed.ok /\ r.ok, root)
    /\ mapFile' = Some(f)
    /\ UNCHANGED <<tileset, tilesetFile, exported>>

\* Open Map on the file the session wrote
MapLoad ==
    /\ IsSome(mapFile)
    /\ MapLoadFile(Unwrap(mapFile))

\* Open Map on a file from elsewhere
MapLoadForeign(f) ==
    MapLoadFile(f)

NextMap ==
    \/ MapNew
    \/ \E root \in world.map : MapImportTileset(root, ImportedTilesetFile)
    \/ \E tileset_id \in DOMAIN world.tileset : MapAddTile(tileset_id, "a.glb")
    \/ \E root \in world.map : MapCreateLayer(root, "New Layer")
    \/ \E layer \in DOMAIN world.layer, location \in Locations,
          tileset_id \in DOMAIN world.tileset, tile \in 0..(MaxMapTiles - 1),
          rotation \in Rotations, left \in BOOLEAN :
          MapPaint(layer, [location |-> location, tileset |-> tileset_id,
                           tile |-> tile, rotation |-> rotation], left)
    \/ \E tileset_id \in DOMAIN world.tileset : MapDeleteTileset(tileset_id)
    \/ \E root \in world.map : MapSave(root)
    \/ MapLoad
    \/ \E f \in ForeignMapFiles : MapLoadForeign(f)

SpecMap == InitMap /\ [][NextMap]_vars

\* New Map, once, in the empty editor
PaintNewMap ==
    /\ world.map = {}
    /\ MapNew

\* a session that paints and erases on a map created in the editor
NextPaint ==
    \/ PaintNewMap
    \/ \E tileset_id \in DOMAIN world.tileset : MapAddTile(tileset_id, "a.glb")
    \/ \E root \in world.map : MapCreateLayer(root, "New Layer")
    \/ \E layer \in DOMAIN world.layer, location \in Locations,
          tileset_id \in DOMAIN world.tileset, tile \in 0..(MaxMapTiles - 1),
          rotation \in Rotations, left \in BOOLEAN :
          MapPaint(layer, [location |-> location, tileset |-> tileset_id,
                           tile |-> tile, rotation |-> rotation], left)

SpecPaint == InitMap /\ [][NextPaint]_vars

----------------------------------------------------------------------------
(* SpecCodec: SaveMapCommand as an API on a small world: the command may be
   built for any entity handle, live or stale, and a Tileset may hang under
   any entity.  SpecReject: MapImporter and TilesetImporter on files the
   program accepts and on files it rejects *)

\* tileset files: one that parses, one of another version, one whose keys
\* come in another order
CodecTilesetFiles ==
    {ImportedTilesetFile,
     [ImportedTilesetFile EXCEPT !.version = TILESET_VERSION + 1],
     [ImportedTilesetFile EXCEPT !.keys = <<"name", "version", "tiles">>]}

\* map files: one that loads, one of another version, and two holding a
\* tileset that does not parse
CodecMapFiles ==
    {ForeignMapFile(MAP_FORMAT_VERSION, <<3>>),
     ForeignMapFile(MAP_FORMAT_VERSION + 1, <<3>>),
     [ForeignMapFile(MAP_FORMAT_VERSION, <<3>>) EXCEPT
         !.tilesets[7].version = TILESET_VERSION + 1],
     [ForeignMapFile(MAP_FORMAT_VERSION, <<3>>) EXCEPT
         !.tilesets[3].keys = <<"version", "tiles", "name">>]}

\* room for n more entities
CodecRoom(n) == world.next + n - 1 <= MaxCodecId

CodecNew ==
    /\ CodecRoom(3)
    /\ Cardinality(world.map) = 0
    /\ MapNew

CodecImportTileset(root, f) ==
    /\ CodecRoom(1)
    /\ MapImportTileset(root, f)

\* a Tileset of one tile spawned as a child of a live entity, as
\* tests::spawn_map does under its root
CodecSpawnTileset(parent) ==
    /\ ~crashed
    /\ CodecRoom(1)
    /\ parent \in world.alive
    /\ LET id == world.next
       IN  world' = AddChild([SpawnEmpty(world) EXCEPT
                                !.tileset = Put(@, id,
                                    AddTile(TilesetNew("tileset a"), "a.glb"))],
                            parent, id)
    /\ last' = MapDid("spawn_tileset", TRUE, parent)
    /\ UNCHANGED <<mapFile, tileset, tilesetFile, exported, crashed>>

CodecPaint(layer, tileset_id) ==
    /\ CodecRoom(1)
    /\ MapPaint(layer, [location |-> [x |-> 0, y |-> 0],
                        tileset |-> tileset_id, tile |-> 0,
                        rotation |-> "None"], TRUE)

\* a tile spawned as a child of a layer with whatever TileRef the caller
\* builds, as tests::spawn_tile does
CodecSpawnTile(layer, tileset_id, tile) ==
    /\ ~crashed
    /\ CodecRoom(1)
    /\ layer \in DOMAIN world.layer
    /\ LET id == world.next
       IN  world' = AddChild([SpawnEmpty(world) EXCEPT
                                !.tile = Put(@, id,
                                    [location |-> [x |-> 0, y |-> 0],
                                     tileset  |-> tileset_id,
                                     tile     |-> tile,
                                     rotation |-> "None"])],
                            layer, id)
    /\ last' = MapDid("spawn_tile", TRUE, layer)
    /\ UNCHANGED <<mapFile, tileset, tilesetFile, exported, crashed>>

CodecDeleteTileset(tileset_id) ==
    MapDeleteTileset(tileset_id)

\* SaveMapCommand::new(path, root) for any entity handle ever handed out
CodecSave(root) ==
    /\ CodecRoom(1)
    /\ SaveMapCommandWrite(root)

CodecLoad(f) ==
    /\ CodecRoom(LoadSize(f))
    /\ MapLoadFile(f)

NextCodec ==
    \/ CodecNew
    \/ \E parent \in world.map \cup DOMAIN world.layer :
          CodecSpawnTileset(parent)
    \/ \E layer \in DOMAIN world.layer, tileset_id \in DOMAIN world.tileset :
          CodecPaint(layer, tileset_id)
    \/ \E layer \in DOMAIN world.layer, tileset_id \in DOMAIN world.tileset,
          tile \in 0..MaxMapTiles :
          CodecSpawnTile(layer, tileset_id, tile)
    \/ \E tileset_id \in DOMAIN world.tileset : CodecDeleteTileset(tileset_id)
    \/ \E root \in world.map \cup DOMAIN world.layer
                     \cup (1..(world.next - 1) \ world.alive) :
          CodecSave(root)

SpecCodec == InitMap /\ [][NextCodec]_vars

\* SpecReject: the same world under the loads and imports of files, good and
\* bad
NextReject ==
    \/ CodecNew
    \/ \E root \in world.map, f \in CodecTilesetFiles :
          CodecImportTileset(root, f)
    \/ \E f \in CodecMapFiles : CodecLoad(f)

SpecReject == InitMap /\ [][NextReject]_vars

----------------------------------------------------------------------------
(* SpecTasks: load, save, import and export with their IoTaskPool tasks in
   flight.  The component that tracks a task is world.task[entity]: the
   kind of tracker, the state of the future (pending, or ready with ok or
   err) and what the task owns.  A task runs to its end in one step
   (TaskFinish); each polling system of the Update stage is one action, its
   commands applied with it *)

TaskKinds ==
    {"MapImporter", "MapWriterTask", "TilesetImporter", "TilesetExporter"}

\* a tracker with its task just spawned
PendingTask(kind, file, doc, tileset_file, tileset_value) ==
    [kind         |-> kind,
     state        |-> "pending",
     file         |-> file,           \* MapImporter: the file at path
     doc          |-> doc,            \* MapWriterTask: the MapFormat moved in
     tileset_file |-> tileset_file,   \* TilesetImporter: the file at path
     tileset      |-> tileset_value]  \* TilesetExporter: the Tileset moved in

TasksOf(w, kind) == {e \in DOMAIN w.task : w.task[e].kind = kind}

\* the map files of the session: one that loads, one with a tileset that
\* does not parse, one with a tile instance of a tileset id it lacks
TaskMapFiles ==
    {ForeignMapFile(MAP_FORMAT_VERSION, <<3>>),
     [ForeignMapFile(MAP_FORMAT_VERSION, <<3>>) EXCEPT
         !.tilesets[7].version = TILESET_VERSION + 1],
     ForeignMapFile(MAP_FORMAT_VERSION, <<5>>)}

TaskTilesetFiles ==
    {ImportedTilesetFile,
     [ImportedTilesetFile EXCEPT !.version = TILESET_VERSION + 1]}

TaskRoom(n) == world.next + n - 1 <= MaxTaskId

\* room for one more task
TaskSlot == Cardinality(DOMAIN world.task) < MaxInFlight

TasksNew ==
    /\ TaskRoom(3)
    /\ MapNew

\* handle_ui_events, MapClose: close_map
TasksClose ==
    /\ ~crashed
    /\ Cardinality(world.map) = 1
    /\ world' = CloseMap(world)
    /\ last' = MapDid("close", TRUE, CHOOSE root \in world.map : TRUE)
    /\ UNCHANGED <<mapFile, tileset, tilesetFile, exported, crashed>>

\* load_map: an entity with MapImporter::new(path)
TasksLoad(f) ==
    /\ ~crashed
    /\ TaskRoom(1)
    /\ TaskSlot
    /\ world' = [SpawnEmpty(world) EXCEPT
                    !.task = Put(@, world.next,
                                 PendingTask("MapImporter", Some(f), None,
                                             None, None))]
    /\ last' = MapDid("load_map", TRUE, world.next)
    /\ UNCHANGED <<mapFile, tileset, tilesetFile, exported, crashed>>

\* handle_picker_events, TilesetImport: a child of the map with
\* TilesetImporter::new(path)
TasksImportTileset(root, f) ==
    /\ ~crashed
    /\ TaskRoom(1)
    /\ TaskSlot
    /\ root \in world.map
    /\ Cardinality(world.map) = 1
    /\ world' = [PushChildren(SpawnEmpty(world), root, <<world.next>>, 1)
                    EXCEPT !.task = Put(@, world.next,
                                        PendingTask("TilesetImporter", None,
                                                    None, Some(f), None))]
    /\ last' = MapDid("import_tileset", TRUE, world.next)
    /\ UNCHANGED <<mapFile, tileset, tilesetFile, exported, crashed>>

\* save_map and SaveMapCommand::write: try_new, then the task that owns the
\* document, tracked by a new entity with MapWriterTask
TasksSave(root) ==
    /\ ~crashed
    /\ TaskRoom(1)
    /\ TaskSlot
    /\ root \in world.map
    /\ Cardinality(world.map) = 1
    /\ \E tilesets \in Perms(TilesetChildren(world, root)),
          layers \in Perms(LayersQueried(world, root)) :
          LET r == TryNew(world, root, tilesets, layers)
          IN  /\ world' = IF r.ok
                          THEN [SpawnEmpty(r.world) EXCEPT
                                  !.task = Put(@, r.world.next,
                                      PendingTask("MapWriterTask", None,
                                                  Some(r.doc), None, None))]
                          ELSE r.world
              /\ last' = MapDid("save", r.ok, root)
    /\ UNCHANGED <<mapFile, tileset, tilesetFile, exported, crashed>>

\* handle_picker_events, TilesetExport: an entity with
\* TilesetExporter::new(path, tileset.clone())
TasksExport(tileset_id) ==
    /\ ~crashed
    /\ TaskRoom(1)
    /\ TaskSlot
    /\ tileset_id \in DOMAIN world.tileset
    /\ world' = [SpawnEmpty(world) EXCEPT
                    !.task = Put(@, world.next,
                                 PendingTask("TilesetExporter", None, None,
                                             None,
                                             Some(world.tileset[tileset_id])))]
    /\ last' = MapDid("export_tileset", TRUE, tileset_id)
    /\ UNCHANGED <<mapFile, tileset, tilesetFile, exported, crashed>>

TasksAddTile(tileset_id) == MapAddTile(tileset_id, "a.glb")

TasksPaint(layer, tileset_id, left) ==
    /\ TaskRoom(1)
    /\ MapPaint(layer, [location |-> [x |-> 0, y |-> 0],
                        tileset |-> tileset_id, tile |-> 0,
                        rotation |-> "None"], left)

TasksDeleteTileset(tileset_id) == MapDeleteTileset(tileset_id)

\* what the async block of a task returns: io_ok is whether the file could
\* be opened or created
TaskResult(t, io_ok) ==
    IF ~io_ok THEN "err"
    ELSE IF t.kind = "MapImporter"
    THEN (IF DeserializeMap(Unwrap(t.file)).ok THEN "ok" ELSE "err")
    ELSE IF t.kind = "TilesetImporter"
    THEN (IF VisitMap(Unwrap(t.tileset_file)).ok THEN "ok" ELSE "err")
    ELSE "ok"

\* the map writer's async block, mutant that encodes the live map when the
\* task runs
MapWriterOutputMutLive(w, t) ==
    IF w.map = {} THEN SerializeMap(Unwrap(t.doc))
    ELSE LET root == CHOOSE root \in w.map : TRUE
             r == TryNew(w, root,
                         CHOOSE o \in Perms(TilesetChildren(w, root)) : TRUE,
                         CHOOSE o \in Perms(LayersQueried(w, root)) : TRUE)
         IN  IF r.ok THEN SerializeMap(r.doc)
             ELSE SerializeMap(Unwrap(t.doc))

\* the map writer's async block: to_writer_pretty(f, &map) of the MapFormat
\* the closure owns
MapWriterOutput(w, t) == SerializeMap(Unwrap(t.doc))

\* the tileset exporter's async block: to_writer_pretty(f, &tileset)
TilesetExporterOutput(w, t) == SerializeTileset(Unwrap(t.tileset))

\* the task tracked by entity e runs to its end on the pool
TaskFinish(e, io_ok) ==
    /\ ~crashed
    /\ e \in DOMAIN world.task
    /\ world.task[e].state = "pending"
    /\ LET t == world.task[e]
       IN  /\ world' = [world EXCEPT
                           !.task[e].state = TaskResult(t, io_ok)]
           /\ mapFile' = IF t.kind = "MapWriterTask" /\ io_ok
                         THEN Some(MapWriterOutput(world, t))
                         ELSE mapFile
           /\ tilesetFile' = IF t.kind = "TilesetExporter" /\ io_ok
                             THEN Some(TilesetExporterOutput(world, t))
                             ELSE tilesetFile
           /\ last' = MapDid("finish", TaskResult(t, io_ok) = "ok", e)
    /\ UNCHANGED <<tileset, exported, crashed>>

\* one iteration of a polling system's loop, for the tracker on entity e:
\* [panic, world]
PollOne(w, e) ==
    LET t == w.task[e]
    IN  IF t.state = "pending"
        THEN [panic |-> FALSE, world |-> w]
        ELSE IF t.kind \in {"MapWriterTask", "TilesetExporter"}
        THEN [panic |-> FALSE, world |-> Despawn(w, e)]
        ELSE IF t.state = "err"
        THEN [panic |-> FALSE, world |-> Despawn(w, e)]
        ELSE IF t.kind = "TilesetImporter"
        THEN [panic |-> FALSE,
              world |-> [w EXCEPT
                           !.task = Without(@, e),
                           !.tileset = Put(@, e,
                               VisitMap(Unwrap(t.tileset_file)).value)]]
        ELSE LET r == TrySpawn(DeserializeMap(Unwrap(t.file)).doc, w, e)
             IN  IF r.panic THEN [panic |-> TRUE, world |-> w]
                 ELSE IF ~r.ok
                 THEN [panic |-> FALSE, world |-> DespawnRecursive(w, e)]
                 ELSE [panic |-> FALSE,
                       world |-> [r.world EXCEPT !.task = Without(@, e)]]

\* a polling system's loop over the trackers its query yields
RECURSIVE PollLoop(_, _, _)
PollLoop(w, entities, k) ==
    IF k > Len(entities) THEN [panic |-> FALSE, world |-> w]
    ELSE LET r == PollOne(w, entities[k])
         IN  IF r.panic THEN r
             ELSE PollLoop(r.world, entities, k + 1)

\* map_importer, map_writers, tileset_importer or tileset_exporter, with
\* the commands it queued applied; a panic takes the process down before
\* any command is applied
PollSystem(kind) ==
    /\ ~crashed
    /\ TasksOf(world, kind) # {}
    /\ \E entities \in Perms(TasksOf(world, kind)) :
          LET r == PollLoop(world, entities, 1)
          IN  /\ r.world.next <= MaxTaskId + 1
              /\ world' = IF r.panic THEN world ELSE r.world
              /\ crashed' = r.panic
              /\ last' = MapDid(kind, ~r.panic, 0)
    /\ UNCHANGED <<mapFile, tileset, tilesetFile, exported>>

MapImporterSystem == PollSystem("MapImporter")

MapWritersSystem == PollSystem("MapWriterTask")

TilesetImporterSystem == PollSystem("TilesetImporter")

TilesetExporterSystem == PollSystem("TilesetExporter")

NextTasks ==
    \/ TasksNew
    \/ \E f \in TaskMapFiles : TasksLoad(f)
    \/ \E root \in world.map, f \in TaskTilesetFiles :
          TasksImportTileset(root, f)
    \/ \E root \in world.map : TasksSave(root)
    \/ \E tileset_id \in DOMAIN world.tileset : TasksExport(tileset_id)
    \/ \E e \in DOMAIN world.task, io_ok \in BOOLEAN : TaskFinish(e, io_ok)
    \/ MapImporterSystem
    \/ MapWritersSystem
    \/ TilesetImporterSystem
    \/ TilesetExporterSystem

SpecTasks == InitMap /\ [][NextTasks]_vars

\* SpecWrites: the edits of a session while its writes are in flight
NextWrites ==
    \/ TasksNew
    \/ TasksClose
    \/ \E root \in world.map : TasksSave(root)
    \/ \E tileset_id \in DOMAIN world.tileset : TasksExport(tileset_id)
    \/ \E tileset_id \in DOMAIN world.tileset : TasksAddTile(tileset_id)
    \/ \E layer \in DOMAIN world.layer, tileset_id \in DOMAIN world.tileset,
          left \in BOOLEAN :
          TasksPaint(layer, tileset_id, left)
    \/ \E tileset_id \in DOMAIN world.tileset :
          TasksDeleteTileset(tileset_id)
    \/ \E e \in DOMAIN world.task : TaskFinish(e, TRUE)
    \/ MapWritersSystem
    \/ TilesetExporterSystem

SpecWrites == InitMap /\ [][NextWrites]_vars

----------------------------------------------------------------------------
(* SpecEditor: the editor session with its EditorState resource, the menu,
   the confirmation dialog, the EditorUiEvent queue that handle_ui_events
   drains, and the load and save tasks.  One path ("map.ron", path 1) is
   picked in the file dialogs *)

Event(kind, arg) == [kind |-> kind, arg |-> arg]

MapPath == 1

\* the map file at the path picked: a tileset of one tile and an empty layer
EditorMapFile ==
    [version  |-> MAP_FORMAT_VERSION,
     layout   |-> Layout,
     tilesets |-> (0 :> SerializeTileset(AddTile(TilesetNew("ts a"),
                                                 "a.glb"))),
     layers   |-> <<[name |-> "layer 0", tiles |-> <<>>]>>]

\* Added<map::Map>: the entities that received Map since map_loaded ran
TrackAdded(before, after) ==
    [after EXCEPT !.added = @ \cup (after.map \ before.map)]

\* close_map with its writes to EditorState
EditorCloseMap(w) ==
    [CloseMap(w) EXCEPT !.state = [map_path        |-> None,
                                   unsaved_changes |-> FALSE,
                                   active_layer    |-> None,
                                   active_tileset  |-> None]]

\* create_map with its writes to EditorState
EditorCreateMap(w) ==
    [TrackAdded(w, CreateMap(w)) EXCEPT
        !.state = [map_path        |-> None,
                   unsaved_changes |-> FALSE,
                   active_layer    |-> Some(w.next + 1),
                   active_tileset  |-> Some(w.next + 2)]]

\* save_map: without exactly one Map nothing happens; else the
\* SaveMapCommand is applied (run_system applies the buffers) and the flag
\* is cleared
EditorSaveMap(w) ==
    IF Cardinality(w.map) # 1 THEN w
    ELSE LET root == CHOOSE root \in w.map : TRUE
             r == TryNew(w, root, Ascending(TilesetChildren(w, root)),
                         Ascending(LayersQueried(w, root)))
             saved == IF r.ok
                      THEN [SpawnEmpty(r.world) EXCEPT
                              !.task = Put(@, r.world.next,
                                  PendingTask("MapWriterTask", None,
                                              Some(r.doc), None, None))]
                      ELSE r.world
         IN  [saved EXCEPT !.state.unsaved_changes = FALSE]

\* load_map: an entity with MapImporter::new(path)
EditorLoadMap(w) ==
    [SpawnEmpty(w) EXCEPT
        !.task = Put(@, w.next,
                     PendingTask("MapImporter", Some(EditorMapFile), None,
                                 None, None))]

\* remove_tileset: despawn_recursive, then the active tileset becomes the
\* first other Tileset the query yields
EditorRemoveTileset(w, tileset_id) ==
    LET others == DOMAIN w.tileset \ {tileset_id}
    IN  [DespawnRecursive(w, tileset_id) EXCEPT
            !.state.active_tileset =
                IF others = {} THEN None
                ELSE Some(Ascending(others)[1])]

\* handle_ui_events' match on one event: [panic, world]; Commands::entity
\* panics on an entity that does not exist
HandleEvent(w, event) ==
    IF event.kind = "MapNew"
    THEN [panic |-> FALSE, world |-> EditorCreateMap(EditorCloseMap(w))]
    ELSE IF event.kind = "MapClose"
    THEN [panic |-> FALSE, world |-> EditorCloseMap(w)]
    ELSE IF event.kind = "MapSave"
    THEN [panic |-> FALSE, world |-> EditorSaveMap(w)]
    ELSE IF event.kind = "MapLoad"
    THEN [panic |-> FALSE, world |-> EditorLoadMap(w)]
    ELSE IF event.kind = "DeleteTileset"
    THEN (IF event.arg \in w.alive
          THEN [panic |-> FALSE, world |-> EditorRemoveTileset(w, event.arg)]
          ELSE [panic |-> TRUE, world |-> w])
    ELSE [panic |-> FALSE, world |-> w]

\* handle_ui_events' loop over events.drain(): a panic ends it
RECURSIVE HandleEvents(_, _, _)
HandleNext(r, events, k) ==
    IF r.panic THEN r ELSE HandleEvents(r.world, events, k + 1)

HandleEvents(w, events, k) ==
    IF k > Len(events) THEN [panic |-> FALSE, world |-> w]
    ELSE HandleNext(HandleEvent(w, events[k]), events, k)

EditorRoom(n) == world.next + n - 1 <= MaxEditorId

\* events.send(event)
Send(w, event) == [w EXCEPT !.events = Append(@, event)]

\* the dialog MapNew::draw and MapClose::draw spawn over unsaved changes:
\* Cancel, Discard Changes (the event of the menu entry) and Save or
\* Save As...
UnsavedDialog(w, event) ==
    [SpawnEmpty(w) EXCEPT
        !.dialog = Put(@, w.next,
            [cancel  |-> None,
             discard |-> Some(event),
             save    |-> Some(IF IsSome(w.state.map_path)
                              THEN Event("MapSave", Unwrap(w.state.map_path))
                              ELSE Event("MapSaveAs", 0))])]

\* MapNew::draw or MapClose::draw with the button clicked
MenuClick(w, event) ==
    Send(IF w.state.unsaved_changes THEN UnsavedDialog(w, event) ELSE w,
         event)

EditorDid(op, w) ==
    /\ world' = w
    /\ last' = MapDid(op, TRUE, 0)
    /\ UNCHANGED <<mapFile, tileset, tilesetFile, exported, crashed>>

\* menu, New Map
ClickNewMap ==
    /\ ~crashed
    /\ EditorRoom(1)
    /\ Len(world.events) < MaxEvents
    /\ EditorDid("click_new", MenuClick(world, Event("MapNew", 0)))

\* menu, Close Map: enabled when get_map finds one Map
ClickCloseMap ==
    /\ ~crashed
    /\ EditorRoom(1)
    /\ Len(world.events) < MaxEvents
    /\ Cardinality(world.map) = 1
    /\ EditorDid("click_close", MenuClick(world, Event("MapClose", 0)))

\* menu, Save Map: enabled when map_path is set
ClickSaveMap ==
    /\ ~crashed
    /\ Len(world.events) < MaxEvents
    /\ IsSome(world.state.map_path)
    /\ EditorDid("click_save",
                 Send(world, Event("MapSave", Unwrap(world.state.map_path))))

\* handle_picker_events, MapSave(Some(path)) and MapLoad(Some(path)): the
\* path picked in the file dialog of Save As... or Open Map...
PickPath(kind) ==
    /\ ~crashed
    /\ Len(world.events) < MaxEvents
    /\ kind = "MapSave" => Cardinality(world.map) = 1
    /\ EditorDid(kind,
                 Send([world EXCEPT
                          !.state.map_path =
                              IF IsSome(@) THEN @ ELSE Some(MapPath)],
                      Event(kind, MapPath)))

\* draw_confirmation_dialog with one of the dialog's buttons clicked
ClickDialog(e, button) ==
    /\ ~crashed
    /\ e \in DOMAIN world.dialog
    /\ Len(world.events) < MaxEvents
    /\ EditorDid(button,
                 LET event == world.dialog[e][button]
                     sent == IF IsSome(event)
                             THEN Send(world, Unwrap(event)) ELSE world
                 IN  Despawn(sent, e))

\* tileset panel, Remove Tileset, with the dialog answered Delete Tileset
ClickRemoveTileset ==
    /\ ~crashed
    /\ Len(world.events) < MaxEvents
    /\ IsSome(world.state.active_tileset)
    /\ EditorDid("click_remove_tileset",
                 Send(world, Event("DeleteTileset",
                                   Unwrap(world.state.active_tileset))))

\* handle_ui_events has run with the outcome r of its loop
Handled(r) ==
    /\ r.world.next <= MaxEditorId + 1
    /\ Cardinality(DOMAIN r.world.task) <= MaxInFlight
    /\ world' = IF r.panic THEN world ELSE r.world
    /\ crashed' = r.panic
    /\ last' = MapDid(world.events[Len(world.events)].kind, ~r.panic, 0)

\* handle_ui_events
HandleUiEvents ==
    /\ ~crashed
    /\ world.events # <<>>
    /\ Handled(HandleEvents([world EXCEPT !.events = <<>>], world.events, 1))
    /\ UNCHANGED <<mapFile, tileset, tilesetFile, exported>>

\* handle_picker_events, AddTiles: one file picked
EditorAddTiles(tileset_id) ==
    /\ ~crashed
    /\ tileset_id \in DOMAIN world.tileset
    /\ Len(world.tileset[tileset_id].tile_order) < MaxMapTiles
    /\ EditorDid("add_tiles",
                 [world EXCEPT !.tileset[tileset_id] = AddTile(@, "a.glb"),
                               !.state.unsaved_changes = TRUE])

\* handle_map_cursor_events on the active layer with the cursor's tile
EditorPaint(tileset_id, left) ==
    /\ EditorRoom(1)
    /\ Cardinality(world.map) = 1
    /\ IsSome(world.state.active_layer)
    /\ MapPaint(Unwrap(world.state.active_layer),
                [location |-> [x |-> 0, y |-> 0], tileset |-> tileset_id,
                 tile |-> 0, rotation |-> "None"], left)

\* map_importer or map_writers with the commands applied
EditorPoll(kind) ==
    /\ ~crashed
    /\ TasksOf(world, kind) # {}
    /\ \E entities \in Perms(TasksOf(world, kind)) :
          LET r == PollLoop(world, entities, 1)
          IN  /\ r.world.next <= MaxEditorId + 1
              /\ world' = IF r.panic THEN world
                          ELSE TrackAdded(world, r.world)
              /\ crashed' = r.panic
              /\ last' = MapDid(kind, ~r.panic, 0)
    /\ UNCHANGED <<mapFile, tileset, tilesetFile, exported>>

\* map_loaded: when exactly one Map with Children was added since the last
\* run, its first Tileset and Layer children fill the unset selections
FirstChild(w, root, components) ==
    LET found == SelectSeq(ChildrenOf(w, root),
                           LAMBDA c : c \in DOMAIN components)
    IN  IF found = <<>> THEN None ELSE Some(found[1])

MapLoaded ==
    /\ ~crashed
    /\ world.added # {}
    /\ LET seen == {e \in world.added : HasChildren(world, e)}
           root == CHOOSE e \in seen : TRUE
           w1 == [world EXCEPT !.added = {}]
       IN  EditorDid("map_loaded",
              IF Cardinality(seen) # 1 THEN w1
              ELSE [w1 EXCEPT
                      !.state.active_tileset =
                          IF IsSome(@) THEN @
                          ELSE FirstChild(world, root, world.tileset),
                      !.state.active_layer =
                          IF IsSome(@) THEN @
                          ELSE FirstChild(world, root, world.layer)])

NextEditor ==
    \/ ClickNewMap
    \/ ClickCloseMap
    \/ ClickSaveMap
    \/ PickPath("MapSave")
    \/ \E e \in DOMAIN world.dialog,
          button \in {"cancel", "discard", "save"} : ClickDialog(e, button)
    \/ HandleUiEvents
    \/ \E tileset_id \in DOMAIN world.tileset : EditorAddTiles(tileset_id)
    \/ \E tileset_id \in DOMAIN world.tileset, left \in BOOLEAN :
          EditorPaint(tileset_id, left)
    \/ \E e \in DOMAIN world.task, io_ok \in BOOLEAN :
          TaskFinish(e, io_ok)
    \/ EditorPoll("MapWriterTask")

SpecEditor == InitMap /\ [][NextEditor]_vars

\* SpecOpen: the session under New Map, Open Map, Close Map, the layer and
\* tileset panels, and the loads in flight
NextOpen ==
    \/ ClickNewMap
    \/ ClickCloseMap
    \/ PickPath("MapLoad")
    \/ HandleUiEvents
    \/ ClickRemoveTileset
    \/ \E e \in DOMAIN world.task, io_ok \in BOOLEAN :
          TaskFinish(e, io_ok)
    \/ EditorPoll("MapImporter")
    \/ MapLoaded

SpecOpen == InitMap /\ [][NextOpen]_vars

\* handle_picker_events, TilesetImport with one path picked: a child of the
\* one Map with TilesetImporter::new(path), made the active tileset
EditorImportTileset(f) ==
    /\ ~crashed
    /\ EditorRoom(1)
    /\ Cardinality(DOMAIN world.task) < MaxInFlight
    /\ Cardinality(world.map) = 1
    /\ EditorDid("import_tileset",
          [PushChildren(SpawnEmpty(world), CHOOSE root \in world.map : TRUE,
                        <<world.next>>, 1)
              EXCEPT !.task = Put(@, world.next,
                                  PendingTask("TilesetImporter", None, None,
                                              Some(f), None)),
                     !.state.active_tileset = Some(world.next)])

\* SpecImport: the session under New Map, Close Map, tileset imports and
\* the removal of the active tileset
NextImport ==
    \/ ClickNewMap
    \/ ClickCloseMap
    \/ HandleUiEvents
    \/ \E f \in TaskTilesetFiles : EditorImportTileset(f)
    \/ \E e \in DOMAIN world.task, io_ok \in BOOLEAN : TaskFinish(e, io_ok)
    \/ EditorPoll("TilesetImporter")
    \/ ClickRemoveTileset

SpecImport == InitMap /\ [][NextImport]_vars

----------------------------------------------------------------------------
(* File pickers: src/file_picker.rs and handle_picker_events *)

\* enum PickerEvent: the variant, the tileset entity of AddTiles and of
\* TilesetExport, and the Option that holds the path or the paths
PickerEvent(kind, tileset_id, files) ==
    [kind |-> kind, tileset_id |-> tileset_id, files |-> files]

PickerKinds ==
    {"AddTiles", "MapSave", "MapLoad", "TilesetImport", "TilesetExport"}

\* PickerEvent::set_result: the variants of one path take result[0]
set_result(event, result) ==
    [event EXCEPT !.files = IF event.kind \in {"AddTiles", "TilesetImport"}
                            THEN Some(result)
                            ELSE Some(result[1])]

\* Picker::build: the dialog runs as a task that has not returned
PickerDialog(event) == [event |-> Some(event), task |-> None]

\* what the dialog of the variant returns when a file is chosen
PickerResults(kind) ==
    IF kind = "TilesetImport" THEN {<<f>> : f \in TaskTilesetFiles}
    ELSE IF kind = "AddTiles" THEN {<<"a.glb">>}
    ELSE {<<MapPath>>}

\* the menu entries and handle_ui_events' MapSaveAs: a PickerDialog entity
\* with the event of the variant, its Option None
OpenPicker(kind) ==
    /\ ~crashed
    /\ world.next <= MaxPickerId
    /\ Cardinality(DOMAIN world.picker) < MaxPickers
    /\ kind \in {"AddTiles", "TilesetExport"}
          => IsSome(world.state.active_tileset)
    /\ LET tileset_id == IF kind \in {"AddTiles", "TilesetExport"}
                         THEN Unwrap(world.state.active_tileset) ELSE 0
       IN  EditorDid("open_picker",
                     [SpawnEmpty(world) EXCEPT
                         !.picker = Put(@, world.next,
                                        PickerDialog(PickerEvent(kind,
                                                                 tileset_id,
                                                                 None)))])

\* the dialog of the picker e returns: None when it was cancelled
PickerReturn(e, result) ==
    /\ ~crashed
    /\ e \in DOMAIN world.picker
    /\ world.picker[e].task = None
    /\ EditorDid("picker_return",
                 [world EXCEPT !.picker[e].task = Some(result)])

\* update_pickers' loop, mutant that leaves the picker in the world
RECURSIVE UpdatePickersLoopMutKeep(_, _, _)
UpdatePickersLoopMutKeep(w, entities, k) ==
    IF k > Len(entities) THEN w
    ELSE LET dialog == w.picker[entities[k]]
         IN  IF dialog.task = None
             THEN UpdatePickersLoopMutKeep(w, entities, k + 1)
             ELSE LET result == Unwrap(dialog.task)
                      taken  == Unwrap(dialog.event)
                      event  == IF IsSome(result)
                                THEN set_result(taken, Unwrap(result))
                                ELSE taken
                  IN  UpdatePickersLoopMutKeep(
                          [w EXCEPT !.picker_events = Append(@, event)],
                          entities, k + 1)

\* update_pickers' loop over the pickers in the order of the query
RECURSIVE UpdatePickersLoop(_, _, _)
UpdatePickersLoop(w, entities, k) ==
    IF k > Len(entities) THEN w
    ELSE LET dialog == w.picker[entities[k]]
         IN  IF dialog.task = None
             THEN UpdatePickersLoop(w, entities, k + 1)
             ELSE LET result == Unwrap(dialog.task)
                      taken  == Unwrap(dialog.event)
                      event  == IF IsSome(result)
                                THEN set_result(taken, Unwrap(result))
                                ELSE taken
                  IN  UpdatePickersLoop(
                          Despawn([w EXCEPT !.picker_events =
                                                Append(@, event)],
                                  entities[k]),
                          entities, k + 1)

\* update_pickers with its commands applied
update_pickers ==
    /\ ~crashed
    /\ \E e \in DOMAIN world.picker : IsSome(world.picker[e].task)
    /\ \E entities \in Perms(DOMAIN world.picker) :
          /\ Len(UpdatePickersLoop(world, entities, 1).picker_events)
                <= MaxPickers
          /\ EditorDid("update_pickers",
                       UpdatePickersLoop(world, entities, 1))

\* handle_picker_events, TilesetImport: a TilesetImporter child of the map
\* for every path, the last of them the active tileset
RECURSIVE ImportPaths(_, _, _, _)
ImportPaths(w, root, paths, k) ==
    IF k > Len(paths) THEN w
    ELSE ImportPaths(
             [PushChildren(SpawnEmpty(w), root, <<w.next>>, 1)
                 EXCEPT !.task = Put(@, w.next,
                                     PendingTask("TilesetImporter", None, None,
                                                 Some(paths[k]), None)),
                        !.state.active_tileset = Some(w.next)],
             root, paths, k + 1)

\* tileset.add_tile for every path
RECURSIVE AddTiles(_, _, _)
AddTiles(ts, paths, k) ==
    IF k > Len(paths) THEN ts
    ELSE AddTiles(AddTile(ts, paths[k]), paths, k + 1)

\* handle_picker_events' match on one event
HandlePickerEvent(w, event) ==
    IF event.kind = "AddTiles"
    THEN (IF event.tileset_id \notin DOMAIN w.tileset THEN w
          ELSE IF event.files = None THEN w
          ELSE [w EXCEPT !.tileset[event.tileset_id] =
                             AddTiles(@, Unwrap(event.files), 1),
                         !.state.unsaved_changes = TRUE])
    ELSE IF event.kind \in {"MapSave", "MapLoad"}
    THEN (IF event.files = None THEN w
          ELSE Send([w EXCEPT !.state.map_path =
                                  IF IsSome(@) THEN @ ELSE event.files],
                    Event(event.kind, Unwrap(event.files))))
    ELSE IF event.kind = "TilesetImport"
    THEN (IF event.files = None THEN w
          ELSE IF Cardinality(w.map) # 1 THEN w
          ELSE ImportPaths(w, CHOOSE root \in w.map : TRUE,
                           Unwrap(event.files), 1))
    ELSE (IF event.files = None THEN w
          ELSE IF event.tileset_id \notin DOMAIN w.tileset THEN w
          ELSE [SpawnEmpty(w) EXCEPT
                   !.task = Put(@, w.next,
                                PendingTask("TilesetExporter", None, None,
                                            None,
                                            Some(w.tileset[event.tileset_id])))])

\* handle_picker_events' loop over the unread events
RECURSIVE HandlePickerEvents(_, _, _)
HandlePickerEvents(w, events, k) ==
    IF k > Len(events) THEN w
    ELSE HandlePickerEvents(HandlePickerEvent(w, events[k]), events, k + 1)

\* the picker session has room for the outcome w of a system
PickerRoom(w) ==
    /\ w.next <= MaxEditorId + 1
    /\ Cardinality(DOMAIN w.task) <= MaxInFlight
    /\ Len(w.events) <= MaxEvents
    /\ \A t \in DOMAIN w.tileset :
          Len(w.tileset[t].tile_order) <= MaxMapTiles

\* handle_picker_events with its commands applied
handle_picker_events ==
    /\ ~crashed
    /\ world.picker_events # <<>>
    /\ PickerRoom(HandlePickerEvents(world, world.picker_events, 1))
    /\ EditorDid("handle_picker_events",
                 [HandlePickerEvents(world, world.picker_events, 1)
                     EXCEPT !.picker_events = <<>>])

\* the editor after New Map
InitPicker ==
    /\ world = EditorCreateMap(EmptyWorld)
    /\ mapFile = NoFile
    /\ tileset = TilesetNew("ts a")
    /\ tilesetFile = NoFile
    /\ exported = None
    /\ crashed = FALSE
    /\ last = MapDid("none", TRUE, 0)

NextPicker ==
    \/ ClickCloseMap
    \/ HandleUiEvents
    \/ \E kind \in PickerKinds : OpenPicker(kind)
    \/ \E e \in DOMAIN world.picker :
          \E result \in {None} \cup {Some(r) : r \in PickerResults(
                                        Unwrap(world.picker[e].event).kind)} :
             PickerReturn(e, result)
    \/ update_pickers
    \/ handle_picker_events

SpecPicker == InitPicker /\ [][NextPicker]_vars

----------------------------------------------------------------------------
(* Thumbnails: src/thumbnail_render.rs and load_tiles *)

\* the entity render_thumbnails spawns for a request: it carries
\* ThumbnailScene until its scene is rendered; scene_spawner, which runs in
\* PreUpdate, has given it a SceneInstance before render_thumbnails sees
\* it; ready is SceneSpawner::instance_is_ready of that instance
ThumbnailScene(request) ==
    [tagged |-> TRUE, ready |-> FALSE, request |-> request]

\* render_thumbnails from the pop on, mutant that takes the newest request
RenderNextMutPopBack(w) ==
    IF w.render_queue.queue = <<>> THEN w
    ELSE LET queue   == w.render_queue.queue
             request == queue[Len(queue)]
         IN  [SpawnEmpty(w) EXCEPT
                 !.render_queue = [queue |-> SubSeq(queue, 1, Len(queue) - 1),
                                   scene |-> Some(w.next)],
                 !.camera.target = Some(request),
                 !.thumbnail = Put(@, w.next, ThumbnailScene(request))]

\* render_thumbnails from pop_front on: with a request, the camera is
\* pointed at its image and its scene is spawned
RenderNext(w) ==
    IF w.render_queue.queue = <<>> THEN w
    ELSE LET request == Head(w.render_queue.queue)
         IN  [SpawnEmpty(w) EXCEPT
                 !.render_queue = [queue |-> Tail(w.render_queue.queue),
                                   scene |-> Some(w.next)],
                 !.camera.target = Some(request),
                 !.thumbnail = Put(@, w.next, ThumbnailScene(request))]

\* scene_instances.get(scene) is Ok
InstanceQueried(w, scene) ==
    scene \in DOMAIN w.thumbnail /\ w.thumbnail[scene].tagged

\* render_thumbnails with its commands applied
RenderThumbnails(w) ==
    IF IsSome(w.render_queue.scene)
    THEN LET scene == Unwrap(w.render_queue.scene)
         IN  IF InstanceQueried(w, scene)
             THEN (IF ~w.thumbnail[scene].ready THEN w
                   ELSE [w EXCEPT !.camera.is_active = TRUE,
                                  !.thumbnail[scene].tagged = FALSE])
             ELSE RenderNext([DespawnRecursive(w, scene) EXCEPT
                                 !.camera.is_active = FALSE,
                                 !.render_queue.scene = None])
    ELSE RenderNext(w)

\* Commands::entity panics on an entity that does not exist
RenderPanics(w) ==
    /\ IsSome(w.render_queue.scene)
    /\ ~InstanceQueried(w, Unwrap(w.render_queue.scene))
    /\ Unwrap(w.render_queue.scene) \notin w.alive

\* a run of render_thumbnails that changes something
render_thumbnails ==
    /\ ~crashed
    /\ RenderPanics(world) \/ RenderThumbnails(world) # world
    /\ world' = IF RenderPanics(world) THEN world
                ELSE RenderThumbnails(world)
    /\ crashed' = RenderPanics(world)
    /\ last' = Did("render_thumbnails", ~RenderPanics(world))
    /\ UNCHANGED <<mapFile, tileset, tilesetFile, exported>>

\* the scene of the thumbnail entity e is loaded and its instance spawned
SceneReady(e) ==
    /\ ~crashed
    /\ e \in DOMAIN world.thumbnail
    /\ ~world.thumbnail[e].ready
    /\ world' = [world EXCEPT !.thumbnail[e].ready = TRUE]
    /\ last' = Did("scene_ready", TRUE)
    /\ UNCHANGED <<mapFile, tileset, tilesetFile, exported, crashed>>

\* the tiles load_tiles gives handles to
Unloaded(ts) == {id \in DOMAIN ts.tiles : ~ts.tiles[id].scene}

\* load_tiles: every tile without handles gets them and a request for its
\* thumbnail is pushed, in the order the HashMap yields the tiles
ThumbLoadTiles ==
    /\ ~crashed
    /\ Unloaded(tileset) # {}
    /\ tileset' = LoadTiles(tileset)
    /\ \E requests \in Perms(Unloaded(tileset)) :
          world' = [world EXCEPT !.render_queue.queue = @ \o requests]
    /\ last' = Did("load_tiles", TRUE)
    /\ UNCHANGED <<mapFile, tilesetFile, exported, crashed>>

NextThumbs ==
    \/ TsAddTile("a.glb")
    \/ ThumbLoadTiles
    \/ \E e \in DOMAIN world.thumbnail : SceneReady(e)
    \/ render_thumbnails

SpecThumbs == InitTileset /\ [][NextThumbs]_vars

\* render_thumbnails runs in every frame, and every scene is loaded in
\* the end
SpecThumbsFair ==
    /\ SpecThumbs
    /\ WF_vars(render_thumbnails)
    /\ \A e \in 1..MaxTiles : WF_vars(SceneReady(e))

----------------------------------------------------------------------------
(* SpecCursor: the map cursor of the editor: handle_input rotates its
   TileTransform, handle_map_cursor_events snaps the pointer's position to
   the grid and stores the Location.  An f32 is an integer here where the
   source writes the value, and the term <<axis, x, y>> where
   hexx::HexLayout computes it from the Hex (x, y) *)

\* TileRotation::clockwise with the arm of Clockwise180 returning
\* CounterClockwise60
clockwiseMutSkip(self) ==
    CASE self = "None" -> "Clockwise60"
      [] self = "Clockwise60" -> "Clockwise120"
      [] self = "Clockwise120" -> "Clockwise180"
      [] self = "Clockwise180" -> "CounterClockwise60"
      [] self = "CounterClockwise120" -> "CounterClockwise60"
      [] self = "CounterClockwise60" -> "None"

\* TileRotation::clockwise
clockwise(self) ==
    CASE self = "None" -> "Clockwise60"
      [] self = "Clockwise60" -> "Clockwise120"
      [] self = "Clockwise120" -> "Clockwise180"
      [] self = "Clockwise180" -> "CounterClockwise120"
      [] self = "CounterClockwise120" -> "CounterClockwise60"
      [] self = "CounterClockwise60" -> "None"

\* TileRotation::counter_clockwise
counter_clockwise(self) ==
    CASE self = "None" -> "CounterClockwise60"
      [] self = "CounterClockwise60" -> "CounterClockwise120"
      [] self = "CounterClockwise120" -> "Clockwise180"
      [] self = "Clockwise180" -> "Clockwise120"
      [] self = "Clockwise120" -> "Clockwise60"
      [] self = "Clockwise60" -> "None"

\* the enum TileRotation
TileRotation ==
    {"None", "Clockwise60", "Clockwise120", "Clockwise180",
     "CounterClockwise120", "CounterClockwise60"}

Vec3(x, y, z) == [x |-> x, y |-> y, z |-> z]

\* HexLayout::hex_to_world_pos as map.rs uses it: a Vec2 that is a function
\* of the layout and the Hex
hex_to_world_pos(hex) == [x |-> <<"x", hex.x, hex.y>>,
                          y |-> <<"y", hex.x, hex.y>>]

\* Map::snap_to_grid(pos), with hex the Hex that
\* layout.world_pos_to_hex(pos.xz()) returns
snap_to_grid(pos, hex) ==
    LET snapped == hex_to_world_pos(hex)
    IN  <<Vec3(snapped.x, pos.y, snapped.y), [x |-> hex.x, y |-> hex.y]>>

\* Map::translation(location)
translation(location) ==
    LET pos == hex_to_world_pos([x |-> location.x, y |-> location.y])
    IN  Vec3(pos.x, 0, pos.y)

\* the pointer's positions on the map: two points of the plane, each at
\* height 0 and above it
CursorPositions == {Vec3(x, y, z) : x \in {1, 2}, y \in {0, 2}, z \in {1}}

\* the cells hexx finds for them
CursorHexes == {[x |-> x, y |-> y] : x \in {-1, 0, 1}, y \in {0, 1}}

CursorDid(op, pos, snapped, location) ==
    [op |-> op, pos |-> pos, snapped |-> snapped, location |-> location]

InitCursor ==
    /\ world = EmptyWorld
    /\ mapFile = NoFile
    /\ tileset = TilesetNew("ts a")
    /\ tilesetFile = NoFile
    /\ exported = None
    /\ crashed = FALSE
    /\ last = CursorDid("none", Vec3(0, 0, 0), Vec3(0, 0, 0),
                        [x |-> 0, y |-> 0])

CursorStep(op, w) ==
    /\ world' = w
    /\ last' = [last EXCEPT !.op = op]
    /\ UNCHANGED <<mapFile, tileset, tilesetFile, exported, crashed>>

\* handle_ui_events, MapNew
CursorNewMap ==
    /\ world.map = {}
    /\ CursorStep("MapNew", HandleEvent(world, Event("MapNew", 0)).world)

\* handle_input, TileRotateCW just pressed
TileRotateCW ==
    /\ ~crashed
    /\ CursorStep("TileRotateCW",
                  [world EXCEPT !.cursor.rotation = clockwise(@)])

\* handle_input, TileRotateCCW just pressed
TileRotateCCW ==
    /\ ~crashed
    /\ CursorStep("TileRotateCCW",
                  [world EXCEPT !.cursor.rotation = counter_clockwise(@)])

\* handle_map_cursor_events up to the insert of the Location, no mouse
\* button pressed
CursorMove(pos, hex) ==
    /\ Cardinality(world.map) = 1
    /\ world' = [world EXCEPT
                    !.cursor.location = Some(snap_to_grid(pos, hex)[2])]
    /\ last' = CursorDid("snap", pos, snap_to_grid(pos, hex)[1],
                         snap_to_grid(pos, hex)[2])
    /\ UNCHANGED <<mapFile, tileset, tilesetFile, exported, crashed>>

NextCursor ==
    \/ CursorNewMap
    \/ TileRotateCW
    \/ TileRotateCCW
    \/ \E pos \in CursorPositions, hex \in CursorHexes : CursorMove(pos, hex)

SpecCursor == InitCursor /\ [][NextCursor]_vars

----------------------------------------------------------------------------
(* SpecScene: the placed tiles of a loaded map under load_tiles, the
   removal of a tileset, painting, and the systems that give a tile its
   scene or remove it.  A tile is Changed only in the frame after its spawn,
   when it has no Handle<Scene> yet: tile_ref_changed finds nothing to
   remove then, and update_tile_transform examines tiles that
   update_tile_scene examines in the same frame, with the same tests *)

\* the map files opened: two tilesets of one tile each and a layer of two
\* tiles, one per tileset; in the second file the second tile names a tile
\* id its tileset lacks
SceneMapFiles ==
    {ForeignMapFile(MAP_FORMAT_VERSION, <<3, 7>>),
     [ForeignMapFile(MAP_FORMAT_VERSION, <<3, 7>>) EXCEPT
         !.layers[1].tiles[2].tile_id = 5]}

\* update_tile_scene's let-else tests on one tile: the tileset entity has
\* no Tileset, or the Tileset has no tile of that id
UnknownRef(w, e) ==
    IF w.tile[e].tileset \notin DOMAIN w.tileset THEN TRUE
    ELSE w.tile[e].tile \notin DOMAIN w.tileset[w.tile[e].tileset].tiles

\* update_tile_scene's loop over the tiles Without<Handle<Scene>>, with the
\* commands applied
RECURSIVE update_tile_scene(_, _, _)
update_tile_scene(w, tiles, k) ==
    IF k > Len(tiles) THEN w
    ELSE LET entity == tiles[k]
             tile_ref == w.tile[entity]
         IN  update_tile_scene(
                 IF UnknownRef(w, entity) THEN DespawnRecursive(w, entity)
                 ELSE IF w.tileset[tile_ref.tileset].tiles[tile_ref.tile].scene
                 THEN [w EXCEPT !.scene = @ \cup {entity}]
                 ELSE w,
                 tiles, k + 1)

\* Open Map with the load run to its end
SceneLoad(f) ==
    /\ world.map = {}
    /\ MapLoadFile(f)

\* load_tiles on every Tileset
SceneLoadTiles ==
    /\ ~crashed
    /\ \E t \in DOMAIN world.tileset :
          \E id \in DOMAIN world.tileset[t].tiles :
             ~world.tileset[t].tiles[id].scene
    /\ world' = [world EXCEPT
                    !.tileset = [t \in DOMAIN @ |-> LoadTiles(@[t])]]
    /\ last' = MapDid("load_tiles", TRUE, 0)
    /\ UNCHANGED <<mapFile, tileset, tilesetFile, exported, crashed>>

\* handle_map_cursor_events, left button, on a free cell
ScenePaint(layer, tileset_id) ==
    MapPaint(layer, [location |-> [x |-> 0, y |-> 1], tileset |-> tileset_id,
                     tile |-> 0, rotation |-> "None"], TRUE)

\* one frame of tile_ref_changed, update_tile_scene and
\* update_tile_transform
TileSystems ==
    /\ ~crashed
    /\ DOMAIN world.tile # {}
    /\ world' = update_tile_scene(world,
                    Ascending(DOMAIN world.tile \ world.scene), 1)
    /\ last' = MapDid("update_tile_scene", TRUE, 0)
    /\ UNCHANGED <<mapFile, tileset, tilesetFile, exported, crashed>>

NextScene ==
    \/ \E f \in SceneMapFiles : SceneLoad(f)
    \/ SceneLoadTiles
    \/ \E layer \in DOMAIN world.layer, tileset_id \in DOMAIN world.tileset :
          ScenePaint(layer, tileset_id)
    \/ \E tileset_id \in DOMAIN world.tileset : MapDeleteTileset(tileset_id)
    \/ TileSystems

SpecScene == InitMap /\ [][NextScene]_vars

----------------------------------------------------------------------------
(* Claims about the map codec *)

\* how many members of S have each value of F
BagOf(S, F(_)) ==
    [v \in {F(e) : e \in S} |-> Cardinality({e \in S : F(e) = v})]

LayerChildren(w, root) ==
    {e \in DOMAIN w.layer : e \in DOMAIN w.parent /\ w.parent[e] = root}

TilesetName(w, e) ==
    IF e \in DOMAIN w.tileset THEN w.tileset[e].name ELSE "?"

\* what a map is, up to entity ids: its tilesets (name, tiles, tile_order),
\* its layers' names and its placements
TilesetsOf(w, root) ==
    BagOf(TilesetChildren(w, root), LAMBDA e : Content(w.tileset[e]))

LayerNamesOf(w, root) ==
    BagOf(LayerChildren(w, root), LAMBDA e : w.layer[e])

PlacementsOf(w, root) ==
    BagOf({t \in DOMAIN w.tile :
              /\ t \in DOMAIN w.parent
              /\ w.parent[t] \in LayerChildren(w, root)},
          LAMBDA t : [layer    |-> w.layer[w.parent[t]],
                      location |-> w.tile[t].location,
                      tileset  |-> TilesetName(w, w.tile[t].tileset),
                      tile     |-> w.tile[t].tile,
                      rotation |-> w.tile[t].rotation])

\* C1: a map that was encoded (try_new) and whose document is then spawned
\* into a fresh root (try_spawn) comes back with the same tilesets (names,
\* tiles, tile_order), the same layer names, layers without placed tiles
\* included, and the same placements
C1_MapRoundTrip ==
    [][(/\ last.op = "save" /\ last.ok
        /\ last'.op = "load" /\ mapFile' = mapFile)
       => /\ last'.ok
          /\ TilesetsOf(world', last'.root) = TilesetsOf(world, last.root)
          /\ LayerNamesOf(world', last'.root) = LayerNamesOf(world, last.root)
          /\ PlacementsOf(world', last'.root) = PlacementsOf(world, last.root)
      ]_vars

\* the tile instances of a file that name a tileset id the file lacks
BadInstances(f) ==
    UNION {{<<l, k>> : k \in {k \in 1..Len(f.layers[l].tiles) :
                                f.layers[l].tiles[k].tileset
                                    \notin DOMAIN f.tilesets}} :
           l \in 1..Len(f.layers)}

GoodInstances(f, l) ==
    SelectSeq(f.layers[l].tiles, LAMBDA t : t.tileset \in DOMAIN f.tilesets)

\* the layer entity holds exactly these instances, in this order
LayerHolds(w, e, f, instances) ==
    /\ Len(ChildrenOf(w, e)) = Len(instances)
    /\ \A k \in 1..Len(instances) :
          LET c == ChildrenOf(w, e)[k]
          IN  /\ c \in DOMAIN w.tile
              /\ w.tile[c].location = instances[k].location
              /\ w.tile[c].tile = instances[k].tile_id
              /\ w.tile[c].rotation = instances[k].rotation
              /\ TilesetName(w, w.tile[c].tileset)
                    = f.tilesets[instances[k].tileset].name

\* C2: loading a file in which exactly one tile instance names a tileset id
\* that is no key of the file's tilesets completes, and every layer is
\* spawned with all of its other instances
C2_BadReferenceSkipsOnlyThatTile ==
    (/\ last.op = "load"
     /\ IsSome(mapFile)
     /\ Unwrap(mapFile).version = MAP_FORMAT_VERSION
     /\ DeserializeMap(Unwrap(mapFile)).ok
     /\ Cardinality(BadInstances(Unwrap(mapFile))) = 1)
    => /\ ~crashed
       /\ last.ok
       /\ \A l \in 1..Len(Unwrap(mapFile).layers) :
             \E e \in LayerChildren(world, last.root) :
                /\ world.layer[e] = Unwrap(mapFile).layers[l].name
                /\ LayerHolds(world, e, Unwrap(mapFile),
                              GoodInstances(Unwrap(mapFile), l))

\* the tile instances of a file with the tileset ids they carry
TileInstances(f) ==
    UNION {{[layer |-> f.layers[l].name, instance |-> f.layers[l].tiles[k]] :
               k \in 1..Len(f.layers[l].tiles)} :
           l \in 1..Len(f.layers)}

\* C3: a map loaded from a file and saved again without an edit in between
\* is written with every tileset under the key it had in the file and with
\* every tile instance carrying the tileset id it had in the file
C3_SaveIdsSurviveLoadSave ==
    [][(/\ last.op = "load" /\ last.ok
        /\ last'.op = "save" /\ last'.ok /\ last'.root = last.root)
       => /\ DOMAIN Unwrap(mapFile').tilesets = DOMAIN Unwrap(mapFile).tilesets
          /\ \A id \in DOMAIN Unwrap(mapFile).tilesets :
                /\ id \in DOMAIN Unwrap(mapFile').tilesets
                /\ Unwrap(mapFile').tilesets[id].name
                      = Unwrap(mapFile).tilesets[id].name
          /\ TileInstances(Unwrap(mapFile')) = TileInstances(Unwrap(mapFile))
      ]_vars

----------------------------------------------------------------------------
(* Claims about the codec's error handling *)

\* the world after an importer entity was spawned and despawned again, and
\* nothing else happened
OnlyEntityUsed(w) == [w EXCEPT !.next = @ + 1]

\* C11: a load of a file that parses and whose version is not
\* MAP_FORMAT_VERSION fails, the importer's root entity is despawned, and the
\* world holds no tileset, layer, tile or Map it did not hold before
C11_VersionMismatchRejected ==
    [][(/\ last'.op = "load"
        /\ DeserializeMap(Unwrap(mapFile')).ok
        /\ Unwrap(mapFile').version # MAP_FORMAT_VERSION)
       => /\ ~last'.ok
          /\ ~crashed'
          /\ last'.root \notin world'.alive
          /\ world' = OnlyEntityUsed(world)
      ]_vars

C11_Witness ==
    /\ last.op = "load"
    /\ ~last.ok
    /\ IsSome(mapFile)
    /\ DeserializeMap(Unwrap(mapFile)).ok
    /\ Unwrap(mapFile).version # MAP_FORMAT_VERSION
    /\ world.map # {}

\* a tileset file whose version is not TILESET_VERSION or whose keys are not
\* version, name, tiles in that order
BadTilesetFile(f) == f.version # TILESET_VERSION \/ f.keys # TilesetKeys

HoldsBadTileset(f) ==
    \E id \in DOMAIN f.tilesets : BadTilesetFile(f.tilesets[id])

\* C12: decoding a tileset of another version or with other keys returns an
\* error and no Tileset; a map file holding one fails to load as a whole (the
\* importer entity is despawned, nothing is spawned); a tileset import of one
\* despawns the placeholder entity, which never carries a Tileset
C12_TilesetDecodeAllOrNothing ==
    /\ [](\A f \in CodecTilesetFiles :
            BadTilesetFile(f) =>
                ~VisitMap(f).ok /\ VisitMap(f).value = None)
    /\ [][/\ (last'.op = "load" /\ HoldsBadTileset(Unwrap(mapFile')))
             => /\ ~last'.ok
                /\ ~crashed'
                /\ last'.root \notin world'.alive
                /\ world' = OnlyEntityUsed(world)
          /\ \A root \in world.map, f \in CodecTilesetFiles :
                (BadTilesetFile(f) /\ MapImportTileset(root, f))
                => /\ ~last'.ok
                   /\ last'.root = world.next
                   /\ last'.root \notin world'.alive
                   /\ world'.tileset = world.tileset
         ]_vars

C12_Witness ==
    /\ last.op = "import_tileset"
    /\ ~last.ok
    /\ last.root \notin world.alive
    /\ IsSome(mapFile)
    /\ HoldsBadTileset(Unwrap(mapFile))

\* C13: SaveMapCommand for a live entity that carries no Map fails with an
\* error before any SaveId is assigned: the world is as it was, no writer
\* task is spawned and no file is written
C13_NotAMapFailsUntouched ==
    [][\A root \in world.alive \ world.map :
          SaveMapCommandWrite(root)
          => /\ ~last'.ok
             /\ ~crashed'
             /\ world' = world
             /\ mapFile' = mapFile
      ]_vars

C13_Witness ==
    /\ last.op = "save"
    /\ ~last.ok
    /\ ~crashed
    /\ last.root \in world.alive \ world.map
    /\ \E e \in TilesetChildren(world, last.root) : e \notin DOMAIN world.saveId

\* C14: SaveMapCommand on a root with Map, whether try_new succeeds or fails,
\* changes nothing in the world except that tileset children of the root
\* that had no SaveId have one afterwards: every component, every
\* parent/child relation and every SaveId that existed is as before (the
\* writer task's entity has come and gone on success)
C14_EncodeFrame ==
    [][\A root \in world.map :
          SaveMapCommandWrite(root)
          => /\ [world' EXCEPT !.saveId = world.saveId,
                               !.next = world.next] = world
             /\ \A e \in DOMAIN world.saveId :
                   /\ e \in DOMAIN world'.saveId
                   /\ world'.saveId[e] = world.saveId[e]
             /\ \A e \in DOMAIN world'.saveId \ DOMAIN world.saveId :
                   /\ e \in DOMAIN world.tileset
                   /\ e \in DOMAIN world.parent
                   /\ world.parent[e] = root
      ]_vars

C14_Witness ==
    /\ last.op = "save"
    /\ ~last.ok
    /\ last.root \in world.map
    /\ \E e \in DOMAIN world.saveId : world.parent[e] = last.root
    /\ \E t \in DOMAIN world.tile : t \in DOMAIN world.parent

\* the placed tiles under the layers of root whose TileRef names an entity
\* that is not a Tileset child of root
DanglingTiles(w, root) ==
    {t \in DOMAIN w.tile :
        /\ t \in DOMAIN w.parent
        /\ w.parent[t] \in DOMAIN w.layer
        /\ w.parent[t] \in DOMAIN w.parent
        /\ w.parent[w.parent[t]] = root
        /\ t \in Range(ChildrenOf(w, w.parent[t]))
        /\ ~ /\ w.tile[t].tileset \in DOMAIN w.tileset
             /\ w.tile[t].tileset \in DOMAIN w.parent
             /\ w.parent[w.tile[t].tileset] = root}

\* C15: when a placed tile in a layer of the root references a tileset that
\* is not a tileset child of the root, SaveMapCommand fails as a whole: no
\* document is produced, no writer task entity is spawned and the
\* destination file is left as it was
C15_DanglingRefFailsWholeSave ==
    [][\A root \in world.map :
          DanglingTiles(world, root) # {} /\ SaveMapCommandWrite(root)
          => /\ ~last'.ok
             /\ ~crashed'
             /\ world'.next = world.next
             /\ world'.alive = world.alive
             /\ mapFile' = mapFile
      ]_vars

C15_Witness ==
    /\ last.op = "save"
    /\ ~last.ok
    /\ last.root \in world.map
    /\ DanglingTiles(world, last.root) # {}
    /\ \E t \in DanglingTiles(world, last.root) :
          world.tile[t].tileset \notin world.alive

\* C16: in every state the editor reaches through its operations, every
\* placed tile under a layer of a map root references a tileset that exists
\* and is a child of that root, and no save has failed
C16_DanglingRefUnreachable ==
    /\ \A root \in world.map : DanglingTiles(world, root) = {}
    /\ ~(last.op = "save" /\ ~last.ok)

\* the document layer a live layer stands for: its name and its placed-tile
\* children in child order, each with the SaveId of its tileset
PlacedTiles(w, e) ==
    SelectSeq(ChildrenOf(w, e), LAMBDA c : c \in DOMAIN w.tile)

LayerOf(w, e) ==
    [name  |-> w.layer[e],
     tiles |-> [k \in 1..Len(PlacedTiles(w, e)) |->
                 LET c == PlacedTiles(w, e)[k]
                 IN  [location |-> w.tile[c].location,
                      tileset  |-> w.saveId[w.tile[c].tileset],
                      tile_id  |-> w.tile[c].tile,
                      rotation |-> w.tile[c].rotation]]]

\* C17: the document of a successful save holds every layer child of the
\* root exactly once, a layer without placed tiles included, and each
\* document layer lists exactly the placed-tile children of its live layer
\* in child order
C17_EveryLayerEncodedOnce ==
    (last.op = "save" /\ last.ok)
    => BagOf(1..Len(Unwrap(mapFile).layers),
             LAMBDA l : Unwrap(mapFile).layers[l])
         = BagOf(LayerChildren(world, last.root),
                 LAMBDA e : LayerOf(world, e))

\* every tile instance of the document names a tileset of the document and
\* a tile of that tileset
ReferentialIntegrity(doc) ==
    \A l \in 1..Len(doc.layers) :
       \A k \in 1..Len(doc.layers[l].tiles) :
          LET t == doc.layers[l].tiles[k]
          IN  /\ t.tileset \in DOMAIN doc.tilesets
              /\ t.tile_id \in DOMAIN doc.tilesets[t.tileset].tiles

\* C18: in every document MapFormat::try_new returns successfully, each
\* tile instance's tileset id is a key of the document's tilesets and its
\* tile_id is a key of that tileset's tiles
C18_DocumentReferentialIntegrity ==
    [][\A root \in world.map :
          (SaveMapCommandWrite(root) /\ last'.ok)
          => \A tilesets \in Perms(TilesetChildren(world, root)),
                layers \in Perms(LayersQueried(world, root)) :
                LET r == TryNew(world, root, tilesets, layers)
                IN  r.ok => ReferentialIntegrity(r.doc)
      ]_vars

----------------------------------------------------------------------------
(* Claims about the tasks *)

\* C19: a polling system leaves the tracker of a pending task as it is; at
\* the first poll that finds the task ready the tracker is gone (removed,
\* or despawned with its entity), so the task is not polled again; on Err
\* the placeholder entity is despawned with nothing spawned below it; on Ok
\* of an import the entity holds the parsed Tileset, on Ok of a load the
\* entity is the root of the document's tilesets and layers, once each;
\* writer and exporter entities are despawned
C19_TaskHandledExactlyOnce ==
    [][\A kind \in TaskKinds :
          PollSystem(kind)
          => \A e \in TasksOf(world, kind) :
                LET t == world.task[e]
                IN  /\ t.state = "pending"
                       => /\ e \in DOMAIN world'.task
                          /\ world'.task[e] = t
                          /\ e \in world'.alive
                          /\ e \notin world'.map
                          /\ e \notin DOMAIN world'.tileset
                    /\ t.state # "pending"
                       => e \notin DOMAIN world'.task
                    /\ (t.state = "err"
                        \/ (t.state = "ok"
                            /\ kind \in {"MapWriterTask", "TilesetExporter"}))
                       => /\ e \notin world'.alive
                          /\ \A c \in DOMAIN world'.parent :
                                world'.parent[c] # e
                    /\ (t.state = "ok" /\ kind = "TilesetImporter")
                       => /\ e \in DOMAIN world'.tileset
                          /\ world'.tileset[e]
                                = VisitMap(Unwrap(t.tileset_file)).value
                    /\ (t.state = "ok" /\ kind = "MapImporter")
                       => /\ e \in world'.map
                          /\ Cardinality(TilesetChildren(world', e))
                                = Cardinality(DOMAIN Unwrap(t.file).tilesets)
                          /\ Cardinality(LayerChildren(world', e))
                                = Len(Unwrap(t.file).layers)
      ]_vars

\* C20: a save builds its document and assigns every SaveId in the step
\* that spawns the write task; no later step (placing or erasing tiles,
\* adding tiles to a tileset, deleting a tileset, closing the map) changes
\* the document of a write in flight; the task writes exactly that
\* document and leaves the world as it is
C20_SaveSnapshotIsolation ==
    [][/\ \A root \in world.map :
             (TasksSave(root) /\ last'.ok)
             => /\ world.next \in TasksOf(world', "MapWriterTask")
                /\ \E tilesets \in Perms(TilesetChildren(world, root)),
                      layers \in Perms(LayersQueried(world, root)) :
                      /\ TryNew(world, root, tilesets, layers).ok
                      /\ world'.task[world.next].doc
                            = Some(TryNew(world, root, tilesets, layers).doc)
                /\ \A t \in TilesetChildren(world, root) :
                      t \in DOMAIN world'.saveId
                /\ mapFile' = mapFile
       /\ \A e \in TasksOf(world, "MapWriterTask") :
             /\ e \in DOMAIN world'.task
                => world'.task[e].doc = world.task[e].doc
             /\ TaskFinish(e, TRUE)
                => /\ mapFile' = Some(SerializeMap(Unwrap(world.task[e].doc)))
                   /\ [world' EXCEPT !.task = world.task] = world
      ]_vars

\* a write has finished, and the live map it was taken from would be
\* encoded differently by now
C20_Witness ==
    /\ last.op = "finish"
    /\ last.ok
    /\ last.root \in TasksOf(world, "MapWriterTask")
    /\ mapFile = Some(SerializeMap(Unwrap(world.task[last.root].doc)))
    /\ \E root \in world.map :
          \E tilesets \in Perms(TilesetChildren(world, root)),
             layers \in Perms(LayersQueried(world, root)) :
             /\ TryNew(world, root, tilesets, layers).ok
             /\ SerializeMap(TryNew(world, root, tilesets, layers).doc)
                   # Unwrap(mapFile)

----------------------------------------------------------------------------
(* Claims about the editor session *)

\* handle_ui_events drains, in this step, a queue holding an event of kind
Handles(kind) ==
    /\ HandleUiEvents
    /\ \E k \in 1..Len(world.events) : world.events[k].kind = kind

\* C21: a save clears unsaved_changes only when the write task has reported
\* success: a step that turns the flag off without handling New Map or
\* Close Map is the step in which map_writers finds a write task Ready(Ok)
C21_ClearedOnlyOnWriteSuccess ==
    [][(/\ world.state.unsaved_changes
        /\ ~world'.state.unsaved_changes
        /\ ~Handles("MapNew")
        /\ ~Handles("MapClose"))
       => \E e \in TasksOf(world, "MapWriterTask") :
             /\ world.task[e].state = "ok"
             /\ e \notin DOMAIN world'.task
      ]_vars

\* the step despawns a Map entity
ClosesMap == \E root \in world.map : root \notin world'.alive

\* C27: while the map has unsaved changes, New Map and Close Map do not
\* close the map before the confirmation dialog is answered: no step
\* despawns the Map while unsaved_changes holds and a dialog is still open;
\* and the click on Cancel leaves the map, map_path and unsaved_changes as
\* they are
C27_CloseWaitsForAnswer ==
    [][/\ (world.state.unsaved_changes /\ ClosesMap)
          => DOMAIN world.dialog = {}
       /\ \A e \in DOMAIN world.dialog :
             ClickDialog(e, "cancel")
             => /\ world'.map = world.map
                /\ world'.state.map_path = world.state.map_path
                /\ world'.state.unsaved_changes = world.state.unsaved_changes
      ]_vars

\* the step is an edit of the open map: tiles added to a tileset, or a tile
\* placed, replaced or erased
EditsMap ==
    \/ \E tileset_id \in DOMAIN world.tileset : EditorAddTiles(tileset_id)
    \/ /\ \E tileset_id \in DOMAIN world.tileset, left \in BOOLEAN :
             EditorPaint(tileset_id, left)
       /\ world'.tile # world.tile

\* C28: unsaved_changes tracks unsaved edits: it is true after every edit
\* of the open map, and once true it stays true until a save, New Map or
\* Close Map is handled
C28_UnsavedTracksEdits ==
    [][/\ EditsMap => world'.state.unsaved_changes
       /\ (world.state.unsaved_changes /\ ~world'.state.unsaved_changes)
          => (Handles("MapSave") \/ Handles("MapNew") \/ Handles("MapClose"))
      ]_vars

\* C29: at most one entity holds a Map component, whatever the order of
\* New Map, Open Map, Close Map and the completions of loads
C29_AtMostOneMap == Cardinality(world.map) <= 1

\* C30: when handle_ui_events has handled Close Map as the last event of
\* its queue, no Map, Tileset, Layer or placed tile is left, map_path,
\* active_layer and active_tileset are None and unsaved_changes is false
C30_CloseLeavesNothing ==
    [][(/\ HandleUiEvents
        /\ world.events[Len(world.events)].kind = "MapClose"
        /\ ~crashed')
       => /\ world'.map = {}
          /\ DOMAIN world'.tileset = {}
          /\ DOMAIN world'.layer = {}
          /\ DOMAIN world'.tile = {}
          /\ world'.state = [map_path        |-> None,
                             unsaved_changes |-> FALSE,
                             active_layer    |-> None,
                             active_tileset  |-> None]
      ]_vars

----------------------------------------------------------------------------
(* Claims about the cursor and the grid *)

\* clockwise applied k times
RECURSIVE ClockwiseTimes(_, _)
ClockwiseTimes(k, r) ==
    IF k = 0 THEN r ELSE ClockwiseTimes(k - 1, clockwise(r))

\* C22: TileRotation is a cyclic group of order 6 under stepping: for the
\* rotation r the cursor holds, counter_clockwise(clockwise(r)) = r and
\* clockwise(counter_clockwise(r)) = r, six clockwise steps return r, and
\* one to five clockwise steps never do
C22_RotationCyclicGroup ==
    LET r == world.cursor.rotation
    IN  /\ r \in TileRotation
        /\ counter_clockwise(clockwise(r)) = r
        /\ clockwise(counter_clockwise(r)) = r
        /\ ClockwiseTimes(6, r) = r
        /\ \A k \in 1..5 : ClockwiseTimes(k, r) # r
        /\ {ClockwiseTimes(k, r) : k \in 0..5} = TileRotation

\* the cursor was rotated clockwise past Clockwise180
C22_Witness ==
    /\ last.op = "TileRotateCW"
    /\ world.cursor.rotation = "CounterClockwise120"

\* C24: snap_to_grid is stable: when snap_to_grid(p) = (s, loc), also for a
\* p above or below the plane, translation(loc) is exactly s
C24_SnapIsStable ==
    last.op = "snap" => translation(last.location) = last.snapped

----------------------------------------------------------------------------
(* Claims about the placed tiles *)

\* C26: a frame of the tile systems removes every tile whose TileRef names
\* a tileset entity without a Tileset or a tile id the Tileset lacks, with
\* or without a scene handle, and removes nothing else: every other tile
\* stays as it is, below its layer
C26_UnknownRefRemovedAlone ==
    [][TileSystems
       => \A e \in DOMAIN world.tile :
             IF UnknownRef(world, e)
             THEN e \notin world'.alive
             ELSE /\ e \in DOMAIN world'.tile
                  /\ world'.tile[e] = world.tile[e]
                  /\ world'.parent[e] = world.parent[e]
      ]_vars

----------------------------------------------------------------------------
(* Claims about EditorState *)

\* C31: map_path is Some only while a map is open: in every state without
\* a Map entity (nothing loaded yet, a load pending, a load failed)
\* map_path is None; and once the path picked in Save As... or Open Map...
\* is handled, map_path is that path
C31_MapPathOnlyWhileOpen ==
    [][/\ world'.map = {} => world'.state.map_path = None
       /\ \A kind \in {"MapSave", "MapLoad"} :
             PickPath(kind) => world'.state.map_path = Some(MapPath)
      ]_vars

\* C32: whenever active_tileset is Some(e), e is an existing entity that
\* carries a Tileset or a TilesetImporter; after a failed import and after
\* the removal of a tileset it does not name the despawned entity
C32_ActiveTilesetExists ==
    IsSome(world.state.active_tileset)
    => LET e == Unwrap(world.state.active_tileset)
       IN  /\ e \in world.alive
           /\ \/ e \in DOMAIN world.tileset
              \/ e \in TasksOf(world, "TilesetImporter")

----------------------------------------------------------------------------
(* Claims about painting *)

\* the placed tiles of the layer at the location
TilesAt(w, layer, location) ==
    {e \in DOMAIN w.tile : /\ e \in DOMAIN w.parent
                           /\ w.parent[e] = layer
                           /\ w.tile[e].location = location}

----------------------------------------------------------------------------
(* Claims about the file pickers *)

\* the pickers whose dialog has returned
ReadyPickers(w) == {e \in DOMAIN w.picker : IsSome(w.picker[e].task)}

\* the events the queue has gained in the step
SentPickerEvents ==
    SubSeq(world'.picker_events, Len(world.picker_events) + 1,
           Len(world'.picker_events))

\* C34: a file picker emits exactly one PickerEvent, when its dialog has
\* returned, and is then despawned: a run of update_pickers sends one event
\* per returned picker and despawns these pickers, the others stay, and no
\* other step sends a PickerEvent; the event of a cancelled dialog carries
\* no path, and handling cancelled events changes nothing but the queue
\* they are read from (no map_path, no task, no tile, no unsaved_changes)
C34_OneEventPerPicker ==
    [][/\ update_pickers
          => /\ Len(SentPickerEvents) = Cardinality(ReadyPickers(world))
             /\ \A e \in ReadyPickers(world) :
                   /\ e \notin world'.alive
                   /\ \E k \in DOMAIN SentPickerEvents :
                         LET event == SentPickerEvents[k]
                             taken == Unwrap(world.picker[e].event)
                         IN  /\ event.kind = taken.kind
                             /\ event.tileset_id = taken.tileset_id
                             /\ (event.files = None)
                                   <=> (Unwrap(world.picker[e].task) = None)
             /\ \A e \in DOMAIN world.picker \ ReadyPickers(world) :
                   /\ e \in world'.alive
                   /\ world'.picker[e] = world.picker[e]
       /\ ~update_pickers
          => \/ world'.picker_events = world.picker_events
             \/ world'.picker_events = <<>>
       /\ (/\ handle_picker_events
           /\ \A k \in DOMAIN world.picker_events :
                 world.picker_events[k].files = None)
          => world' = [world EXCEPT !.picker_events = <<>>]
      ]_vars

\* two pickers have returned, one of them cancelled, their events are
\* unread and the pickers are gone
C34_Witness ==
    /\ last.op = "update_pickers"
    /\ Len(world.picker_events) = 2
    /\ world.picker_events[1].files = None
    /\ world.picker_events[2].files # None
    /\ DOMAIN world.picker = {}

----------------------------------------------------------------------------
(* Claims about the thumbnails *)

\* C35: the requests for thumbnails are served in the order they were
\* pushed (a step leaves the queue, appends to it, or takes its head, and
\* the head taken is the request the camera is pointed at and the scene
\* spawned), at most one entity spawned for a thumbnail exists at a time,
\* the camera is active only while the scene of RenderQueue exists and is
\* ready, and with every scene ready in the end every queued request
\* leaves the queue
C35_QueueServedInOrder ==
    /\ [][LET queue == world.render_queue.queue
              after == world'.render_queue.queue
          IN  \/ /\ Len(after) >= Len(queue)
                 /\ SubSeq(after, 1, Len(queue)) = queue
              \/ /\ queue # <<>>
                 /\ after = Tail(queue)
                 /\ world'.camera.target = Some(Head(queue))
                 /\ IsSome(world'.render_queue.scene)
                 /\ world'.thumbnail[Unwrap(world'.render_queue.scene)]
                       = ThumbnailScene(Head(queue))
         ]_vars
    /\ [](Cardinality(DOMAIN world.thumbnail) <= 1)
    /\ [](world.camera.is_active
            => /\ IsSome(world.render_queue.scene)
               /\ Unwrap(world.render_queue.scene) \in world.alive
               /\ world.thumbnail[Unwrap(world.render_queue.scene)].ready)
    /\ \A request \in 0..(MaxTiles - 1) :
          (\E k \in DOMAIN world.render_queue.queue :
              world.render_queue.queue[k] = request)
          ~> (\A k \in DOMAIN world.render_queue.queue :
                 world.render_queue.queue[k] # request)

\* the second request is being rendered: the first scene is gone and the
\* camera is active on the second image
C35_Witness ==
    /\ world.camera.is_active
    /\ world.camera.target = Some(1)
    /\ world.next = 3
    /\ 1 \notin world.alive
    /\ world.render_queue.queue # <<>>

====
